---- MODULE Spec2Model ----
(***************************************************************************)
(* HR decision-support platform: the graph Fact Store (decisions/          *)
(* neo4j_client.py, decisions/neo4j_database.py), the Rule Engine          *)
(* (decisions/rules.py, features/engagement.py), the Action Planner        *)
(* (decisions/core.py, actions/actions.py).                                *)
(*                                                                         *)
(* Conventions of the translation                                          *)
(*  - a Python dict is a record or a function, a list is a sequence;       *)
(*  - Python None / a Cypher null in a string position is NULL, in a       *)
(*    dict position it is NoneVal;                                         *)
(*  - an f-string is a record holding its format and its arguments;        *)
(*  - a float confidence c is the integer 100 * c;                         *)
(*  - a graph node is the record of its label and properties; nodes with   *)
(*    equal properties are told apart by a copy index, so the store is a   *)
(*    bag of nodes and a bag of relationships between node handles;        *)
(*  - Cypher fixes no order on the rows of a result: where the order       *)
(*    decides the outcome (dict overwrite, Result.single()) every outcome  *)
(*    is possible, so the operations are set-valued.                       *)
(***************************************************************************)
EXTENDS Integers, Sequences, FiniteSets, Bags, TLC

VARIABLES
    db,                        \* the Fact Store: [nodes : bag, rels : bag]
    credentials,               \* environment: the credentials file loads
    dbUp,                      \* environment: the server answers
    driver,                    \* neo4j_database.driver (NoDriver is None)
    connection_initialized,    \* neo4j_database._connection_initialized
    connection_error,          \* neo4j_database._connection_error
    attempts,                  \* connection attempts made so far: the n-th one
                               \* constructs driver object n
    result                     \* the last call and what it returned or raised

env == <<credentials, dbUp>>
conn == <<driver, connection_initialized, connection_error, attempts>>
vars == <<db, env, conn, result>>

-----------------------------------------------------------------------------
(* Values *)

NULL == "NULL"
NoneVal == [none |-> TRUE]
NoDriver == 0
Driver == 1
Str(s) == [fmt |-> s]

Ret(v) == [kind |-> "return", val |-> v]
Raise(e) == [kind |-> "raise", exc |-> e]

Levels == {"Junior", "Senior", "Manager"}
EngagementLevels == {"low", "medium", "high"}

-----------------------------------------------------------------------------
(* Bounds and the inputs the operations are exercised on *)

MaxNodes == 3
MaxRels == 2
MaxCopies == 2

AdHocEmployees ==
    { [id |-> "E1", name |-> "Alice", level |-> "Senior"],
      [id |-> "E2", name |-> "Bob", level |-> "Manager"],
      [id |-> "E4", name |-> "David", level |-> "Junior"] }
AdHocSkills == {"Python", "Leadership"}
AdHocRoles ==
    { [id |-> "R1", title |-> "Software Engineer"],
      [id |-> "R9", title |-> "Intern"] }
AdHocDepartments == { [id |-> "D1", name |-> "Engineering"] }
AdHocProficiency == {"Advanced", NULL}
AdHocReports == {<<"E1", "E2">>, <<"E1", "E1">>}

\* ids the per-employee entry points are called with; only init_db creates E3
QueryIds == {"E1", "E2", "E3", "E4"}

-----------------------------------------------------------------------------
(* The Fact Store *)

EmptyStore == [nodes |-> EmptyBag, rels |-> EmptyBag]

Prop(v, key) == IF key \in DOMAIN v THEN v[key] ELSE NULL

\* the handles of the nodes of store S
Handles(S) ==
    UNION { {[v |-> v, k |-> k] : k \in 1..S.nodes[v]} : v \in DOMAIN S.nodes }

\* MATCH (n:label {key: val})
MatchNodes(S, label, key, val) ==
    { n \in Handles(S) : n.v.label = label /\ key \in DOMAIN n.v /\ n.v[key] = val }

\* CREATE (:label {props})
CreateNode(S, v) == [S EXCEPT !.nodes = @ (+) SetToBag({v})]

\* MATCH (a ...), (b ...) CREATE (a)-[:type {level}]->(b): one per matched pair
CreateRels(S, type, As, Bs, level) ==
    [S EXCEPT !.rels = @ (+) SetToBag(
        { [type |-> type, from |-> a, to |-> b, level |-> level] : a \in As, b \in Bs })]

\* variant: DELETE of the relationships only, the nodes stay
clear_all_KeepsNodes(S) == [S EXCEPT !.rels = EmptyBag]

clear_all(S) == EmptyStore

create_department(S, dept_id, name) ==
    CreateNode(S, [label |-> "Department", id |-> dept_id, name |-> name])

create_role(S, role_id, title) ==
    CreateNode(S, [label |-> "Role", id |-> role_id, title |-> title])

create_skill(S, name) ==
    CreateNode(S, [label |-> "Skill", name |-> name])

create_employee(S, emp_id, name, level) ==
    CreateNode(S, [label |-> "Employee", id |-> emp_id, name |-> name, level |-> level])

create_works_in_relationship(S, employee_id, department_name) ==
    CreateRels(S, "WORKS_IN", MatchNodes(S, "Employee", "id", employee_id),
               MatchNodes(S, "Department", "name", department_name), NULL)

create_has_role_relationship(S, employee_id, role_title) ==
    CreateRels(S, "HAS_ROLE", MatchNodes(S, "Employee", "id", employee_id),
               MatchNodes(S, "Role", "title", role_title), NULL)

\* level NULL is the call with level omitted: the edge gets no level property
create_has_skill_relationship(S, employee_id, skill_name, level) ==
    CreateRels(S, "HAS_SKILL", MatchNodes(S, "Employee", "id", employee_id),
               MatchNodes(S, "Skill", "name", skill_name), level)

create_reports_to_relationship(S, employee_id, manager_id) ==
    CreateRels(S, "REPORTS_TO", MatchNodes(S, "Employee", "id", employee_id),
               MatchNodes(S, "Employee", "id", manager_id), NULL)

\* SET n.key = val on the matched nodes; the relationships stay on them. The
\* matched nodes differ in a property other than key, so no two of them
\* become one record
SetProp(S, matched, key, val) ==
    LET Upd(v) == IF v \in {h.v : h \in matched}
                  THEN [x \in DOMAIN v \cup {key} |-> IF x = key THEN val ELSE v[x]]
                  ELSE v
        Moved(h) == [v |-> Upd(h.v), k |-> h.k]
    IN  [nodes |-> [w \in {Upd(v) : v \in DOMAIN S.nodes} |->
                       S.nodes[CHOOSE v \in DOMAIN S.nodes : Upd(v) = w]],
         rels |-> [r \in {[x EXCEPT !.from = Moved(@), !.to = Moved(@)] :
                            x \in DOMAIN S.rels} |->
                      S.rels[CHOOSE x \in DOMAIN S.rels :
                               [x EXCEPT !.from = Moved(@), !.to = Moved(@)] = r]]]

\* MERGE (e:Employee {employee_id: int(emp_id)}) SET e.engagement = engagement
create_employee_tx(S, emp_id, engagement) ==
    LET matched == MatchNodes(S, "Employee", "employee_id", emp_id)
    IN  IF matched = {}
        THEN CreateNode(S, [label |-> "Employee", employee_id |-> emp_id,
                            engagement |-> engagement])
        ELSE SetProp(S, matched, "engagement", engagement)

\* one write transaction per row of df, in row order
RECURSIVE sync_df(_, _)
sync_df(S, df) ==
    IF df = <<>> THEN S
    ELSE sync_df(create_employee_tx(S, Head(df).employee_id, Head(df).engagement),
                 Tail(df))

-----------------------------------------------------------------------------
(* Client calls that build the store *)

Fits(S) ==
    /\ BagCardinality(S.nodes) <= MaxNodes
    /\ BagCardinality(S.rels) <= MaxRels
    /\ \A v \in DOMAIN S.nodes : S.nodes[v] <= MaxCopies

\* no call is in progress and the last result has been taken by the caller
Idle == [op |-> "none", args |-> <<>>, kind |-> "return", val |-> NoneVal]

\* the caller is single-threaded: it takes the result of a call before it
\* makes the next one
Return ==
    /\ result.op # "none"
    /\ result' = Idle
    /\ UNCHANGED <<db, env, conn>>

\* a create_* or clear_all call: it returns nothing, so there is no result to take
Write(op, args, S) ==
    /\ result.op = "none"
    /\ connection_initialized /\ driver # NoDriver /\ dbUp
    /\ Fits(S)
    /\ S # db
    /\ db' = S
    /\ result' = Idle
    /\ UNCHANGED <<env, conn>>

CreateDepartment ==
    /\ result.op = "none"
    /\ \E d \in AdHocDepartments :
           Write("create_department", <<d.id, d.name>>, create_department(db, d.id, d.name))

CreateRole ==
    /\ result.op = "none"
    /\ \E r \in AdHocRoles :
           Write("create_role", <<r.id, r.title>>, create_role(db, r.id, r.title))

CreateSkill ==
    /\ result.op = "none"
    /\ \E s \in AdHocSkills : Write("create_skill", <<s>>, create_skill(db, s))

CreateEmployee ==
    /\ result.op = "none"
    /\ \E e \in AdHocEmployees :
           Write("create_employee", <<e.id, e.name, e.level>>,
                 create_employee(db, e.id, e.name, e.level))

CreateWorksIn ==
    /\ result.op = "none"
    /\ \E e \in AdHocEmployees, d \in AdHocDepartments :
           Write("create_works_in_relationship", <<e.id, d.name>>,
                 create_works_in_relationship(db, e.id, d.name))

CreateHasRole ==
    /\ result.op = "none"
    /\ \E e \in AdHocEmployees, r \in AdHocRoles :
           Write("create_has_role_relationship", <<e.id, r.title>>,
                 create_has_role_relationship(db, e.id, r.title))

CreateHasSkill ==
    /\ result.op = "none"
    /\ \E e \in AdHocEmployees, s \in AdHocSkills, l \in AdHocProficiency :
           Write("create_has_skill_relationship", <<e.id, s, l>>,
                 create_has_skill_relationship(db, e.id, s, l))

CreateReportsTo ==
    /\ result.op = "none"
    /\ \E p \in AdHocReports :
           Write("create_reports_to_relationship", p,
                 create_reports_to_relationship(db, p[1], p[2]))

ClearAll == Write("clear_all", <<>>, clear_all(db))

-----------------------------------------------------------------------------
(* Rule Engine: decisions/rules.py *)

\* what a query through driver d does before it yields rows: driver.session()
\* on None raises AttributeError, a server that stopped answering makes
\* session.run raise ServiceUnavailable
Fault(d) ==
    IF d = NoDriver THEN "AttributeError"
    ELSE IF ~dbUp THEN "ServiceUnavailable"
    ELSE "ok"

\* continue with the value of each outcome, pass an exception on
Bind(outs, F(_)) ==
    UNION { IF o.kind = "raise" THEN {o} ELSE F(o.val) : o \in outs }

\* all the orders a set of rows can arrive in
Perms(R) ==
    { f \in [1..Cardinality(R) -> R] :
        \A i, j \in 1..Cardinality(R) : i # j => f[i] # f[j] }

\* all the orders a bag of rows can arrive in
RECURSIVE Arrangements(_)
Arrangements(B) ==
    IF DOMAIN B = {} THEN {<<>>}
    ELSE UNION { { <<row>> \o rest : rest \in Arrangements(B (-) SetToBag({row})) } :
                 row \in DOMAIN B }

\* the bag of the rows Row(r), one for each relationship r of S that Keep accepts
RowBag(S, Keep(_), Row(_)) ==
    LET kept == {r \in DOMAIN S.rels : Keep(r)}
    IN  [row \in {Row(r) : r \in kept} |->
            BagCardinality([r \in {x \in kept : Row(x) = row} |-> S.rels[r]])]

Targets(S, type, from, label, key) ==
    { Prop(r.to.v, key) :
        r \in {x \in DOMAIN S.rels : x.type = type /\ x.from = from /\ x.to.v.label = label} }

OrNull(vals) == IF vals = {} THEN {NULL} ELSE vals

\* the rows of MATCH (e:Employee {id}) OPTIONAL MATCH role OPTIONAL MATCH department
EmployeeRows(S, employee_id) ==
    UNION { { [id |-> e.v.id, name |-> Prop(e.v, "name"), level |-> Prop(e.v, "level"),
               role |-> r, department |-> dep] :
              r \in OrNull(Targets(S, "HAS_ROLE", e, "Role", "title")),
              dep \in OrNull(Targets(S, "WORKS_IN", e, "Department", "name")) } :
            e \in MatchNodes(S, "Employee", "id", employee_id) }

\* variant: Result.single(strict=True), which raises when there is no row
analyze_employee_from_db_Strict(d, S, employee_id) ==
    IF Fault(d) # "ok" THEN {Raise(Fault(d))}
    ELSE IF EmployeeRows(S, employee_id) = {} THEN {Raise("ResultNotSingleError")}
    ELSE {Ret(row) : row \in EmployeeRows(S, employee_id)}

\* Result.single(): None on no row, else the first row, whichever that is
analyze_employee_from_db(d, S, employee_id) ==
    IF Fault(d) # "ok" THEN {Raise(Fault(d))}
    ELSE IF EmployeeRows(S, employee_id) = {} THEN {Ret(NoneVal)}
    ELSE {Ret(row) : row \in EmployeeRows(S, employee_id)}

\* the rows (s.name, skill_rel.level) of the employee's HAS_SKILL edges
SkillRows(S, employee_id) ==
    { <<r.to.v.name, r.level>> :
        r \in { x \in DOMAIN S.rels :
                  /\ x.type = "HAS_SKILL"
                  /\ x.from \in MatchNodes(S, "Employee", "id", employee_id)
                  /\ x.to.v.label = "Skill" } }

\* skills[skill_name] = level: the last row of a name wins
get_employee_skills(d, S, employee_id) ==
    IF Fault(d) # "ok" THEN {Raise(Fault(d))}
    ELSE LET rows == SkillRows(S, employee_id)
             names == {row[1] : row \in rows}
             level(row) == IF row[2] # NULL THEN row[2] ELSE "Basic"
         IN  { Ret(skills) :
                 skills \in { f \in [names -> {level(row) : row \in rows}] :
                                \A n \in names : \E row \in rows :
                                    row[1] = n /\ f[n] = level(row) } }

advanced_skills(skills) == {s \in DOMAIN skills : skills[s] = "Advanced"}

\* variant: a Senior is eligible with one advanced skill
PromotionRule_SeniorOneSkill(level, skills) ==
    IF level = "Senior" /\ Cardinality(advanced_skills(skills)) >= 1
    THEN [eligible |-> TRUE,
          reason |-> Str("Senior level with multiple advanced skills"),
          skills |-> advanced_skills(skills),
          confidence |-> 85]
    ELSE IF level = "Manager" /\ Cardinality(advanced_skills(skills)) >= 1
    THEN [eligible |-> TRUE,
          reason |-> Str("Manager level with advanced technical skills"),
          skills |-> advanced_skills(skills),
          confidence |-> 70]
    ELSE [eligible |-> FALSE,
          reason |-> [fmt |-> "Current level: {level}, Advanced skills: {n}",
                      level |-> level, n |-> Cardinality(advanced_skills(skills))],
          confidence |-> 90]

\* the promotion rule on the employee's level and skills
PromotionRule(level, skills) ==
    IF level = "Senior" /\ Cardinality(advanced_skills(skills)) >= 2
    THEN [eligible |-> TRUE,
          reason |-> Str("Senior level with multiple advanced skills"),
          skills |-> advanced_skills(skills),
          confidence |-> 85]
    ELSE IF level = "Manager" /\ Cardinality(advanced_skills(skills)) >= 1
    THEN [eligible |-> TRUE,
          reason |-> Str("Manager level with advanced technical skills"),
          skills |-> advanced_skills(skills),
          confidence |-> 70]
    ELSE [eligible |-> FALSE,
          reason |-> [fmt |-> "Current level: {level}, Advanced skills: {n}",
                      level |-> level, n |-> Cardinality(advanced_skills(skills))],
          confidence |-> 90]

assess_promotion_eligibility(d, S, employee_id) ==
    Bind(analyze_employee_from_db(d, S, employee_id), LAMBDA employee :
        IF employee = NoneVal
        THEN {Ret([eligible |-> FALSE, reason |-> Str("Employee not found")])}
        ELSE Bind(get_employee_skills(d, S, employee_id), LAMBDA skills :
                {Ret(PromotionRule(employee.level, skills))}))

role_skills ==
    [r \in {"Software Engineer", "Engineering Manager", "HR Manager", "Sales Executive"} |->
        CASE r = "Software Engineer" -> <<"Python", "Neo4j">>
          [] r = "Engineering Manager" -> <<"Leadership", "Python">>
          [] r = "HR Manager" -> <<"Recruitment", "Leadership">>
          [] r = "Sales Executive" -> <<"Negotiation">>]

\* variant: only a skill held at Advanced counts as held
Recommended_AdvancedOnly(role, current_skills) ==
    IF role \in DOMAIN role_skills
    THEN SelectSeq(role_skills[role], LAMBDA skill : skill \notin advanced_skills(current_skills))
    ELSE <<>>

\* the required skills of the role that are not in current_skills, in table order
Recommended(role, current_skills) ==
    IF role \in DOMAIN role_skills
    THEN SelectSeq(role_skills[role], LAMBDA skill : skill \notin DOMAIN current_skills)
    ELSE <<>>

recommend_skill_development(d, S, employee_id) ==
    Bind(analyze_employee_from_db(d, S, employee_id), LAMBDA employee :
        IF employee = NoneVal
        THEN {Ret([recommendations |-> <<>>])}
        ELSE Bind(get_employee_skills(d, S, employee_id), LAMBDA current_skills :
                {Ret([employee |-> employee.name,
                      current_role |-> employee.role,
                      current_skills |-> current_skills,
                      recommended_skills |-> Recommended(employee.role, current_skills),
                      priority |-> IF Len(Recommended(employee.role, current_skills)) >= 2
                                   THEN "high" ELSE "medium"])}))

\* one row (e.name, manager.name, manager.level) per REPORTS_TO edge between
\* Employee nodes
ReportRows(S) ==
    RowBag(S,
           LAMBDA r : r.type = "REPORTS_TO" /\ r.from.v.label = "Employee"
                      /\ r.to.v.label = "Employee",
           LAMBDA r : [employee |-> Prop(r.from.v, "name"),
                       manager |-> Prop(r.to.v, "name"),
                       manager_level |-> Prop(r.to.v, "level")])

\* variant: an employee who reports to themselves is left out
assess_team_structure_NoSelf(d, S) ==
    IF Fault(d) # "ok" THEN {Raise(Fault(d))}
    ELSE { Ret([total_reports |-> Len(reporting_structure),
                structure |-> reporting_structure]) :
           reporting_structure \in
               Arrangements(RowBag(S,
                   LAMBDA r : r.type = "REPORTS_TO" /\ r.from # r.to,
                   LAMBDA r : [employee |-> Prop(r.from.v, "name"),
                               manager |-> Prop(r.to.v, "name"),
                               manager_level |-> Prop(r.to.v, "level")])) }

assess_team_structure(d, S) ==
    IF Fault(d) # "ok" THEN {Raise(Fault(d))}
    ELSE { Ret([total_reports |-> Len(reporting_structure),
                structure |-> reporting_structure]) :
           reporting_structure \in Arrangements(ReportRows(S)) }

\* COUNT(DISTINCT e) of the rows grouped by s.name
expert_count(S, skill_name) ==
    Cardinality({ x.from : x \in { y \in DOMAIN S.rels :
                                     /\ y.type = "HAS_SKILL"
                                     /\ y.from.v.label = "Employee"
                                     /\ y.to.v.label = "Skill"
                                     /\ y.to.v.name = skill_name
                                     /\ y.level = "Advanced" } })

\* the rows (s.name, expert_count), one per distinct s.name
GapRows(S) ==
    { <<n.v.name, expert_count(S, n.v.name)>> : n \in {h \in Handles(S) : h.v.label = "Skill"} }

\* the loop over the rows: a row is kept when expert_count < 2
SkillGaps(rows) ==
    LET kept == SelectSeq(rows, LAMBDA row : row[2] < 2)
    IN  [i \in 1..Len(kept) |->
            [skill |-> kept[i][1],
             experts |-> kept[i][2],
             priority |-> IF kept[i][2] = 0 THEN "critical" ELSE "high"]]

identify_skill_gaps(d, S) ==
    IF Fault(d) # "ok" THEN {Raise(Fault(d))}
    ELSE { Ret([critical_skill_gaps |-> SkillGaps(rows), total_gaps |-> Len(SkillGaps(rows))]) :
           rows \in Perms(GapRows(S)) }

\* variant: medium engagement is rated a risk as well
assess_risk_MediumIsRisk(features) ==
    IF features.engagement \in {"low", "medium"}
    THEN [risk |-> "burnout", priority |-> "high", confidence |-> 70]
    ELSE [risk |-> "none", priority |-> "low", confidence |-> 90]

assess_risk(features) ==
    IF features.engagement = "low"
    THEN [risk |-> "burnout", priority |-> "high", confidence |-> 70]
    ELSE [risk |-> "none", priority |-> "low", confidence |-> 90]

-----------------------------------------------------------------------------
(* Engagement: features/engagement.py, features/ontology.py *)

\* a survey score is the number n / ScoreScale, held as the integer n
ScoreScale == 2

engagement_level(score) ==
    IF score <= 2 * ScoreScale THEN "low"
    ELSE IF score = 3 * ScoreScale THEN "medium"
    ELSE "high"

EMPLOYEE_ATTRIBUTES_engagement ==
    [e \in EngagementLevels |->
        CASE e = "low" -> "At-risk, requires intervention"
          [] e = "medium" -> "Stable, normal performance"
          [] e = "high" -> "Highly motivated, potential leader"]

get_engagement_interpretation(engagement) ==
    IF engagement \in DOMAIN EMPLOYEE_ATTRIBUTES_engagement
    THEN EMPLOYEE_ATTRIBUTES_engagement[engagement]
    ELSE "Unknown"

When(cond, item) == IF cond THEN <<item>> ELSE <<>>

\* variant: the monitor-closely factor at every level
RiskFactors_MonitorAnyLevel(engagement, level) ==
    When(engagement = "low", "High burnout risk - intervention needed")
    \o When(engagement = "low" /\ level = "Senior",
            "Senior-level employee at risk of leaving")
    \o When(engagement = "medium",
            "Senior employee with moderate engagement - monitor closely")

\* the rules that fill risk_factors
RiskFactors(engagement, level) ==
    When(engagement = "low", "High burnout risk - intervention needed")
    \o When(engagement = "low" /\ level = "Senior",
            "Senior-level employee at risk of leaving")
    \o When(engagement = "medium" /\ level = "Senior",
            "Senior employee with moderate engagement - monitor closely")

\* variant: a mentor needs one skill only
Opportunities_MentorOneSkill(engagement, eligible, skills_count) ==
    When(engagement = "high" /\ eligible, "Strong candidate for promotion")
    \o When(engagement = "high" /\ skills_count >= 1,
            "Potential mentor for junior team members")
    \o When(engagement = "low" /\ skills_count >= 2,
            "Consider skill-development project to boost engagement")

\* the rules that fill opportunities
Opportunities(engagement, eligible, skills_count) ==
    When(engagement = "high" /\ eligible, "Strong candidate for promotion")
    \o When(engagement = "high" /\ skills_count >= 2,
            "Potential mentor for junior team members")
    \o When(engagement = "low" /\ skills_count >= 2,
            "Consider skill-development project to boost engagement")

\* the context dict
EngagementContext(employee, employee_id, engagement, skills, promotion_eligible) ==
    [employee |-> employee.name,
     employee_id |-> employee_id,
     engagement_level |-> engagement,
     interpretation |-> get_engagement_interpretation(engagement),
     role |-> employee.role,
     department |-> employee.department,
     level |-> employee.level,
     skills_count |-> Cardinality(DOMAIN skills),
     promotion_eligible |-> promotion_eligible.eligible,
     risk_factors |-> RiskFactors(engagement, employee.level),
     opportunities |->
        Opportunities(engagement, promotion_eligible.eligible, Cardinality(DOMAIN skills))]

analyze_engagement_with_context(d, S, employee_id, engagement) ==
    Bind(analyze_employee_from_db(d, S, employee_id), LAMBDA employee :
        IF employee = NoneVal
        THEN {Ret([status |-> "employee_not_found"])}
        ELSE Bind(get_employee_skills(d, S, employee_id), LAMBDA skills :
             Bind(assess_promotion_eligibility(d, S, employee_id), LAMBDA promotion_eligible :
                {Ret(EngagementContext(employee, employee_id, engagement, skills,
                                       promotion_eligible))})))

engagement_actions_table ==
    [e \in EngagementLevels |-> [l \in Levels |->
        CASE e = "low" /\ l = "Junior" ->
                <<"Schedule mentorship meeting", "Review role fit", "Discuss career growth">>
          [] e = "low" /\ l = "Senior" ->
                <<"One-on-one leadership discussion", "Explore new challenges",
                  "Consider sabbatical">>
          [] e = "low" /\ l = "Manager" ->
                <<"Discuss team dynamics", "Executive coaching", "Rebalance responsibilities">>
          [] e = "medium" /\ l = "Junior" ->
                <<"Provide growth opportunities", "Skill development plan",
                  "Peer collaboration">>
          [] e = "medium" /\ l = "Senior" ->
                <<"Leadership development program", "Project ownership",
                  "Cross-team initiatives">>
          [] e = "medium" /\ l = "Manager" ->
                <<"Manager effectiveness review", "Team engagement assessment",
                  "Strategic planning">>
          [] e = "high" /\ l = "Junior" ->
                <<"Recognize achievements", "Increase responsibilities",
                  "Mentorship opportunities">>
          [] e = "high" /\ l = "Senior" ->
                <<"Leadership opportunities", "Promotion pathway", "Innovation projects">>
          [] e = "high" /\ l = "Manager" ->
                <<"Expand portfolio", "Strategic initiatives", "Succession planning">>]]

\* variant: the table is looked up by role in place of level
recommend_engagement_action_ByRole(engagement, employee_level, role) ==
    [engagement |-> engagement,
     level |-> employee_level,
     role |-> role,
     recommended_actions |->
        IF engagement \in DOMAIN engagement_actions_table
           /\ role \in DOMAIN engagement_actions_table[engagement]
        THEN engagement_actions_table[engagement][role]
        ELSE <<>>]

\* variant: a level outside the table is treated as Junior
recommend_engagement_action_DefaultJunior(engagement, employee_level, role) ==
    [engagement |-> engagement,
     level |-> employee_level,
     role |-> role,
     recommended_actions |->
        IF engagement \in DOMAIN engagement_actions_table
        THEN IF employee_level \in DOMAIN engagement_actions_table[engagement]
             THEN engagement_actions_table[engagement][employee_level]
             ELSE engagement_actions_table[engagement]["Junior"]
        ELSE <<>>]

recommend_engagement_action(engagement, employee_level, role) ==
    [engagement |-> engagement,
     level |-> employee_level,
     role |-> role,
     recommended_actions |->
        IF engagement \in DOMAIN engagement_actions_table
           /\ employee_level \in DOMAIN engagement_actions_table[engagement]
        THEN engagement_actions_table[engagement][employee_level]
        ELSE <<>>]

\* one row (e.id, e.name, e.engagement) per WORKS_IN edge into the department
TeamRows(S, department_name) ==
    RowBag(S,
           LAMBDA r : r.type = "WORKS_IN" /\ r.from.v.label = "Employee"
                      /\ r.to.v.label = "Department"
                      /\ Prop(r.to.v, "name") = department_name,
           LAMBDA r : [id |-> Prop(r.from.v, "id"), name |-> Prop(r.from.v, "name"),
                       engagement |-> Prop(r.from.v, "engagement")])

CountOf(employees, engagement) ==
    Cardinality({i \in 1..Len(employees) : employees[i].engagement = engagement})

\* round(avg, 2) of avg = num / den, in hundredths
Round2(num, den) == (200 * num + den) \div (2 * den)

\* the report on the rows that carry an engagement value
TeamEngagement(department_name, employees) ==
    LET total == Len(employees)
        points == CountOf(employees, "high") * 3 + CountOf(employees, "medium") * 2
                  + CountOf(employees, "low") * 1
    IN  [department |-> department_name,
         total_employees |-> total,
         engagement_distribution |->
            [high |-> CountOf(employees, "high"),
             medium |-> CountOf(employees, "medium"),
             low |-> CountOf(employees, "low")],
         average_engagement_score |-> IF total > 0 THEN Round2(points, total) ELSE 0,
         team_health |-> IF total > 0 /\ 2 * points >= 5 * total
                         THEN "healthy" ELSE "at_risk",
         employees |-> employees]

compute_team_engagement(d, S, department_name) ==
    IF Fault(d) # "ok" THEN {Raise(Fault(d))}
    ELSE LET rows == TeamRows(S, department_name)
             \* the rows that pass "if engagement_val", in the order they arrive
             kept == [row \in {x \in DOMAIN rows : x.engagement # NULL} |-> rows[row]]
         IN  IF \E row \in DOMAIN kept : row.engagement \notin EngagementLevels
             THEN {Raise("KeyError")}
             ELSE { Ret(TeamEngagement(department_name, employees)) :
                      employees \in Arrangements(kept) }

-----------------------------------------------------------------------------
(* Decisions: decisions/core.py *)

\* the value of datetime.now().isoformat(): no claim reads it
Now == "datetime.now()"

make_decision(employee_features) == assess_risk(employee_features)

NotFound == [status |-> "error", message |-> Str("Employee not found")]

\* engagement NULL is the call with engagement omitted
comprehensive_employee_assessment(d, S, employee_id, engagement) ==
    Bind(analyze_employee_from_db(d, S, employee_id), LAMBDA employee :
        IF employee = NoneVal
        THEN {Ret(NotFound)}
        ELSE
        Bind(get_employee_skills(d, S, employee_id), LAMBDA skills :
        Bind(assess_promotion_eligibility(d, S, employee_id), LAMBDA promotion_eligible :
        Bind(recommend_skill_development(d, S, employee_id), LAMBDA skill_recommendations :
        Bind(IF engagement # NULL
             THEN analyze_engagement_with_context(d, S, employee_id, engagement)
             ELSE {Ret(NoneVal)}, LAMBDA engagement_analysis :
            {Ret([employee_id |-> employee_id,
                  employee |-> employee,
                  skills |-> skills,
                  promotion_eligible |-> promotion_eligible,
                  skill_recommendations |-> skill_recommendations,
                  engagement_analysis |-> engagement_analysis,
                  engagement_actions |->
                     IF engagement # NULL
                     THEN recommend_engagement_action(engagement, employee.level,
                                                      employee.role)
                     ELSE NoneVal,
                  assessment_timestamp |-> Now])})))))

organizational_analytics(d, S) ==
    Bind(assess_team_structure(d, S), LAMBDA team_structure :
    Bind(identify_skill_gaps(d, S), LAMBDA skill_gaps :
        {Ret([team_structure |-> team_structure,
              skill_gaps |-> skill_gaps,
              analytics_timestamp |-> Now])}))

\* the decision a skill gap maps to; every gap is critical or high
GapDecision(gap) ==
    IF gap.priority = "critical"
    THEN <<[action |-> "hire_external_expert",
            skill |-> gap.skill,
            reason |-> [fmt |-> "Critical gap: only {experts} expert(s) in {skill}",
                        experts |-> gap.experts, skill |-> gap.skill]]>>
    ELSE IF gap.priority = "high"
    THEN <<[action |-> "develop_internal_talent",
            skill |-> gap.skill,
            reason |-> [fmt |-> "High gap: limited expertise in {skill}",
                        skill |-> gap.skill]]>>
    ELSE <<>>

RECURSIVE GapDecisions(_)
GapDecisions(skill_gaps) ==
    IF skill_gaps = <<>> THEN <<>>
    ELSE GapDecision(Head(skill_gaps)) \o GapDecisions(Tail(skill_gaps))

\* variant: a single reporting edge still counts as no reporting structure
StrategicDecisions_FewReports(analytics) ==
    GapDecisions(analytics.skill_gaps.critical_skill_gaps)
    \o When(analytics.team_structure.total_reports <= 1,
            [action |-> "establish_reporting_structure",
             reason |-> Str("No clear reporting relationships defined")])

StrategicDecisions(analytics) ==
    GapDecisions(analytics.skill_gaps.critical_skill_gaps)
    \o When(analytics.team_structure.total_reports = 0,
            [action |-> "establish_reporting_structure",
             reason |-> Str("No clear reporting relationships defined")])

\* target_id NULL is the call with target_id omitted
make_strategic_decision(d, S, decision_type, target_id) ==
    IF decision_type = "promotion"
    THEN IF target_id = NULL
         THEN {Ret([status |-> "error",
                    message |-> Str("Employee ID required for promotion decision")])}
         ELSE Bind(comprehensive_employee_assessment(d, S, target_id, NULL),
                LAMBDA assessment :
                  IF Prop(assessment, "status") = "error" THEN {Ret(assessment)}
                  ELSE {Ret([decision |-> IF assessment.promotion_eligible.eligible
                                          THEN "promote" ELSE "do_not_promote",
                             reason |-> assessment.promotion_eligible.reason,
                             confidence |->
                                IF "confidence" \in DOMAIN assessment.promotion_eligible
                                THEN assessment.promotion_eligible.confidence ELSE 0,
                             employee |-> assessment.employee,
                             details |-> assessment])})
    ELSE IF decision_type = "skill_development"
    THEN IF target_id = NULL
         THEN {Ret([status |-> "error",
                    message |-> Str("Employee ID required for skill development decision")])}
         ELSE Bind(comprehensive_employee_assessment(d, S, target_id, NULL),
                LAMBDA assessment :
                  IF Prop(assessment, "status") = "error" THEN {Ret(assessment)}
                  ELSE {Ret([decision |-> "initiate_training",
                             recommendations |-> assessment.skill_recommendations,
                             employee |-> assessment.employee,
                             priority |-> assessment.skill_recommendations.priority])})
    ELSE IF decision_type = "organizational_health"
    THEN Bind(organizational_analytics(d, S), LAMBDA analytics :
            {Ret([decision_type |-> "organizational_strategy",
                  strategic_decisions |-> StrategicDecisions(analytics),
                  analytics |-> analytics])})
    ELSE {Ret([status |-> "error",
               message |-> [fmt |-> "Unknown decision type: {decision_type}",
                            decision_type |-> decision_type]])}

\* variant: only high engagement lowers the priority
EngagementPriority_HighUnlessHigh(engagement) ==
    IF engagement # "high" THEN "high" ELSE "medium"

\* the priority of the engagement_action entry
EngagementPriority(engagement) ==
    IF engagement = "low" THEN "high" ELSE "medium"

\* the plan assembled from an assessment that is not an error
ActionPlan(employee_id, engagement, assessment) ==
    [employee_id |-> employee_id,
     employee |-> assessment.employee,
     current_state |->
        [skills |-> assessment.skills,
         engagement |-> engagement,
         promotion_eligible |-> assessment.promotion_eligible.eligible],
     planned_actions |->
        When(assessment.skill_recommendations.recommended_skills # <<>>,
             [type |-> "skill_development",
              skills |-> assessment.skill_recommendations.recommended_skills,
              priority |-> assessment.skill_recommendations.priority,
              timeline |-> "30-60 days"])
        \o When(assessment.engagement_actions # NoneVal,
                [type |-> "engagement_action",
                 actions |-> Prop(assessment.engagement_actions, "recommended_actions"),
                 priority |-> EngagementPriority(engagement),
                 timeline |-> "immediate"])
        \o When(assessment.promotion_eligible.eligible,
                [type |-> "promotion_pathway",
                 target_role |-> [fmt |-> "Senior {role}", role |-> assessment.employee.role],
                 timeline |-> "6-12 months"]),
     timeline |-> "90 days"]

create_action_plan(d, S, employee_id, engagement) ==
    Bind(comprehensive_employee_assessment(d, S, employee_id, engagement),
         LAMBDA assessment :
            IF Prop(assessment, "status") = "error" THEN {Ret(assessment)}
            ELSE {Ret(ActionPlan(employee_id, engagement, assessment))})

-----------------------------------------------------------------------------
(* Actions: actions/actions.py *)

ACTION_TEMPLATES ==
    [one_on_one_meeting |->
        [description |-> "Schedule one-on-one discussion with employee",
         priority |-> "immediate",
         duration |-> "60 minutes",
         participants |-> <<"HR Manager", "Direct Manager", "Employee">>],
     skill_development |->
        [description |-> "Enroll employee in skill development program",
         priority |-> "high",
         duration |-> "30-60 days",
         budget_required |-> TRUE],
     mentorship |->
        [description |-> "Pair employee with mentor",
         priority |-> "medium",
         duration |-> "ongoing",
         budget_required |-> FALSE],
     promotion |->
        [description |-> "Promote employee to next level",
         priority |-> "high",
         duration |-> "immediate",
         requires_approval |-> TRUE],
     role_change |->
        [description |-> "Transfer employee to different role",
         priority |-> "medium",
         duration |-> "1-2 weeks",
         requires_approval |-> TRUE],
     training_program |->
        [description |-> "Enroll in specialized training",
         priority |-> "high",
         duration |-> "varies",
         budget_required |-> TRUE],
     hire_external |->
        [description |-> "Hire external expert or contractor",
         priority |-> "critical",
         duration |-> "2-4 weeks",
         budget_required |-> TRUE,
         requires_approval |-> TRUE],
     knowledge_transfer |->
        [description |-> "Facilitate knowledge transfer session",
         priority |-> "high",
         duration |-> "2-3 hours",
         budget_required |-> FALSE]]

\* variant: a flag counts as soon as the template has the key
TemplateFlag_KeyPresent(a, key) ==
    /\ Prop(a, "type") \in DOMAIN ACTION_TEMPLATES
    /\ key \in DOMAIN ACTION_TEMPLATES[a.type]

\* ACTION_TEMPLATES.get(a.get("type"), {}).get(key), taken as a truth value
TemplateFlag(a, key) ==
    /\ Prop(a, "type") \in DOMAIN ACTION_TEMPLATES
    /\ key \in DOMAIN ACTION_TEMPLATES[a.type]
    /\ ACTION_TEMPLATES[a.type][key]

\* sum(1 for a in actions_list if a.get("urgency") == urgency)
UrgencyCount(actions_list, urgency) ==
    Cardinality({i \in 1..Len(actions_list) : Prop(actions_list[i], "urgency") = urgency})

\* sum(1 for a in actions_list if the template of its type has the flag)
FlagCount(actions_list, key) ==
    Cardinality({i \in 1..Len(actions_list) : TemplateFlag(actions_list[i], key)})

generate_action_execution_report(employee_id, actions_list) ==
    [employee_id |-> employee_id,
     report_date |-> Now,
     action_summary |->
        [total_actions |-> Len(actions_list),
         immediate |-> UrgencyCount(actions_list, "immediate"),
         high_priority |-> UrgencyCount(actions_list, "high"),
         critical |-> UrgencyCount(actions_list, "critical")],
     resource_requirements |->
        [budget_items |-> FlagCount(actions_list, "budget_required"),
         approvals_required |-> FlagCount(actions_list, "requires_approval")],
     actions |-> actions_list,
     next_review_date |-> "datetime.now() + 30 days"]

\* variant: a tier that is neither low nor high is handled as medium
execute_engagement_action_MediumByDefault(employee_id, action_type, level) ==
    [employee_id |-> employee_id,
     engagement_level |-> level,
     recommended_actions |->
        IF level = "low"
        THEN <<[type |-> "one_on_one_meeting", target |-> employee_id,
                urgency |-> "immediate",
                reason |-> Str("High burnout risk - needs intervention"),
                template |-> ACTION_TEMPLATES.one_on_one_meeting],
               [type |-> "workload_review", target |-> employee_id,
                urgency |-> "immediate",
                reason |-> Str("Assess and rebalance workload"),
                action_items |-> <<"Review current projects", "Identify bottlenecks",
                                   "Rebalance priorities">>]>>
        ELSE IF level # "high"
        THEN <<[type |-> "engagement_check", target |-> employee_id,
                urgency |-> "high",
                reason |-> Str("Monitor for further decline"),
                frequency |-> "bi-weekly"],
               [type |-> "growth_opportunity", target |-> employee_id,
                urgency |-> "medium",
                reason |-> Str("Provide new challenges"),
                template |-> ACTION_TEMPLATES.skill_development]>>
        ELSE <<[type |-> "recognition", target |-> employee_id,
                urgency |-> "high",
                reason |-> Str("Recognize and reward high engagement"),
                action_items |-> <<"Public recognition", "Bonus/raise consideration",
                                   "Leadership opportunity">>],
               [type |-> "retention", target |-> employee_id,
                urgency |-> "medium",
                reason |-> Str("Ensure retention of top performer"),
                action_items |-> <<"Career development discussion",
                                   "Advancement pathway", "Mentorship opportunity">>]>>,
     execution_date |-> Now,
     status |-> "pending_approval"]

\* action_type is taken and not used
execute_engagement_action(employee_id, action_type, level) ==
    [employee_id |-> employee_id,
     engagement_level |-> level,
     recommended_actions |->
        IF level = "low"
        THEN <<[type |-> "one_on_one_meeting", target |-> employee_id,
                urgency |-> "immediate",
                reason |-> Str("High burnout risk - needs intervention"),
                template |-> ACTION_TEMPLATES.one_on_one_meeting],
               [type |-> "workload_review", target |-> employee_id,
                urgency |-> "immediate",
                reason |-> Str("Assess and rebalance workload"),
                action_items |-> <<"Review current projects", "Identify bottlenecks",
                                   "Rebalance priorities">>]>>
        ELSE IF level = "medium"
        THEN <<[type |-> "engagement_check", target |-> employee_id,
                urgency |-> "high",
                reason |-> Str("Monitor for further decline"),
                frequency |-> "bi-weekly"],
               [type |-> "growth_opportunity", target |-> employee_id,
                urgency |-> "medium",
                reason |-> Str("Provide new challenges"),
                template |-> ACTION_TEMPLATES.skill_development]>>
        ELSE <<[type |-> "recognition", target |-> employee_id,
                urgency |-> "high",
                reason |-> Str("Recognize and reward high engagement"),
                action_items |-> <<"Public recognition", "Bonus/raise consideration",
                                   "Leadership opportunity">>],
               [type |-> "retention", target |-> employee_id,
                urgency |-> "medium",
                reason |-> Str("Ensure retention of top performer"),
                action_items |-> <<"Career development discussion",
                                   "Advancement pathway", "Mentorship opportunity">>]>>,
     execution_date |-> Now,
     status |-> "pending_approval"]

\* variant: every priority but critical is handled as high
execute_skill_action_HighByDefault(employee_id, skill_gap) ==
    LET skill_name == skill_gap.skill
        priority == skill_gap.priority
    IN  [skill |-> skill_name,
         priority |-> priority,
         recommended_actions |->
            IF priority = "critical"
            THEN <<[type |-> "hire_external", target |-> skill_name,
                    urgency |-> "critical",
                    reason |-> [fmt |-> "No internal experts in {skill_name}",
                                skill_name |-> skill_name],
                    template |-> ACTION_TEMPLATES.hire_external,
                    estimated_timeline |-> "2-4 weeks"],
                   [type |-> "emergency_training", target |-> skill_name,
                    urgency |-> "critical",
                    reason |-> Str("Urgent need for internal capability"),
                    training_type |-> "accelerated"]>>
            ELSE IF priority # "critical"
            THEN <<[type |-> "training_program", target |-> skill_name,
                    urgency |-> "high",
                    reason |-> [fmt |-> "Limited expertise in {skill_name}",
                                skill_name |-> skill_name],
                    template |-> ACTION_TEMPLATES.training_program,
                    estimated_timeline |-> "30-60 days"],
                   [type |-> "knowledge_transfer", target |-> skill_name,
                    urgency |-> "high",
                    reason |-> Str("Share knowledge among team members"),
                    template |-> ACTION_TEMPLATES.knowledge_transfer]>>
            ELSE <<[type |-> "training_program", target |-> skill_name,
                    urgency |-> "medium",
                    reason |-> [fmt |-> "Develop internal capability in {skill_name}",
                                skill_name |-> skill_name],
                    estimated_timeline |-> "60-90 days"]>>,
         execution_date |-> Now,
         status |-> "pending_approval"]

\* employee_id is taken and not used
execute_skill_action(employee_id, skill_gap) ==
    LET skill_name == skill_gap.skill
        priority == skill_gap.priority
    IN  [skill |-> skill_name,
         priority |-> priority,
         recommended_actions |->
            IF priority = "critical"
            THEN <<[type |-> "hire_external", target |-> skill_name,
                    urgency |-> "critical",
                    reason |-> [fmt |-> "No internal experts in {skill_name}",
                                skill_name |-> skill_name],
                    template |-> ACTION_TEMPLATES.hire_external,
                    estimated_timeline |-> "2-4 weeks"],
                   [type |-> "emergency_training", target |-> skill_name,
                    urgency |-> "critical",
                    reason |-> Str("Urgent need for internal capability"),
                    training_type |-> "accelerated"]>>
            ELSE IF priority = "high"
            THEN <<[type |-> "training_program", target |-> skill_name,
                    urgency |-> "high",
                    reason |-> [fmt |-> "Limited expertise in {skill_name}",
                                skill_name |-> skill_name],
                    template |-> ACTION_TEMPLATES.training_program,
                    estimated_timeline |-> "30-60 days"],
                   [type |-> "knowledge_transfer", target |-> skill_name,
                    urgency |-> "high",
                    reason |-> Str("Share knowledge among team members"),
                    template |-> ACTION_TEMPLATES.knowledge_transfer]>>
            ELSE <<[type |-> "training_program", target |-> skill_name,
                    urgency |-> "medium",
                    reason |-> [fmt |-> "Develop internal capability in {skill_name}",
                                skill_name |-> skill_name],
                    estimated_timeline |-> "60-90 days"]>>,
         execution_date |-> Now,
         status |-> "pending_approval"]

\* confidences are in hundredths: the default 0.8 is 80
execute_promotion_action(employee_id, promotion_eligibility) ==
    IF ~ promotion_eligibility.eligible
    THEN [employee_id |-> employee_id,
          promotion_eligible |-> FALSE,
          reason |-> promotion_eligibility.reason,
          recommended_actions |->
             <<[type |-> "skill_development",
                reason |-> promotion_eligibility.reason,
                next_review_date |-> "datetime.now() + 90 days"]>>]
    ELSE [employee_id |-> employee_id,
          promotion_eligible |-> TRUE,
          confidence |-> IF "confidence" \in DOMAIN promotion_eligibility
                         THEN promotion_eligibility.confidence ELSE 80,
          recommended_actions |->
             <<[type |-> "promotion", target |-> employee_id,
                urgency |-> "high",
                reason |-> promotion_eligibility.reason,
                template |-> ACTION_TEMPLATES.promotion,
                required_approvals |-> <<"HR Manager", "Department Head",
                                         "Executive Leadership">>],
               [type |-> "role_transition", target |-> employee_id,
                urgency |-> "high",
                reason |-> Str("Support successful transition to new role"),
                action_items |-> <<"Prepare new position briefing",
                                   "Arrange executive coaching",
                                   "Plan team introduction",
                                   "Set 30-60-90 day goals">>]>>,
          execution_date |-> Now,
          status |-> "pending_approval"]

RECURSIVE SkillActions(_, _)
SkillActions(employee_id, skill_gaps) ==
    IF skill_gaps = <<>> THEN <<>>
    ELSE execute_skill_action(employee_id, Head(skill_gaps)).recommended_actions
         \o SkillActions(employee_id, Tail(skill_gaps))

\* the driver is taken and not used
execute_comprehensive_action_plan(d, employee_id, decision_data) ==
    LET all_actions ==
            (IF "engagement" \in DOMAIN decision_data
             THEN execute_engagement_action(employee_id, "engagement_response",
                                            decision_data.engagement).recommended_actions
             ELSE <<>>)
            \o (IF "promotion_eligible" \in DOMAIN decision_data
                THEN execute_promotion_action(employee_id,
                                              decision_data.promotion_eligible).recommended_actions
                ELSE <<>>)
            \o (IF "skill_gaps" \in DOMAIN decision_data
                THEN SkillActions(employee_id, decision_data.skill_gaps)
                ELSE <<>>)
    IN  generate_action_execution_report(employee_id, all_actions)

-----------------------------------------------------------------------------
(* Calls *)

\* a call made with what get_driver() returns once the connection is initialised
\* variant: the call's session empties the store, as clear_all does
Call_Clearing(op, args, outcomes) ==
    /\ result.op = "none"
    /\ connection_initialized
    /\ \E o \in outcomes : result' = [op |-> op, args |-> args] @@ o
    /\ db' = EmptyStore
    /\ UNCHANGED <<env, conn>>

Call(op, args, outcomes) ==
    /\ result.op = "none"
    /\ connection_initialized
    /\ \E o \in outcomes : result' = [op |-> op, args |-> args] @@ o
    /\ UNCHANGED <<db, env, conn>>

AnalyzeEmployee ==
    /\ result.op = "none"
    /\ \E id \in QueryIds :
           Call("analyze_employee_from_db", <<id>>, analyze_employee_from_db(driver, db, id))

GetEmployeeSkills ==
    /\ result.op = "none"
    /\ \E id \in QueryIds :
           Call("get_employee_skills", <<id>>, get_employee_skills(driver, db, id))

AssessPromotionEligibility ==
    /\ result.op = "none"
    /\ \E id \in QueryIds :
           Call("assess_promotion_eligibility", <<id>>,
                assess_promotion_eligibility(driver, db, id))

RecommendSkillDevelopment ==
    /\ result.op = "none"
    /\ \E id \in QueryIds :
           Call("recommend_skill_development", <<id>>,
                recommend_skill_development(driver, db, id))

AssessTeamStructure ==
    Call("assess_team_structure", <<>>, assess_team_structure(driver, db))

IdentifySkillGaps ==
    Call("identify_skill_gaps", <<>>, identify_skill_gaps(driver, db))

AnalyzeEngagementWithContext ==
    /\ result.op = "none"
    /\ \E id \in QueryIds, engagement \in EngagementLevels :
           Call("analyze_engagement_with_context", <<id, engagement>>,
                analyze_engagement_with_context(driver, db, id, engagement))

ComprehensiveEmployeeAssessment ==
    /\ result.op = "none"
    /\ \E id \in QueryIds, engagement \in EngagementLevels \cup {NULL} :
           Call("comprehensive_employee_assessment", <<id, engagement>>,
                comprehensive_employee_assessment(driver, db, id, engagement))

OrganizationalAnalytics ==
    Call("organizational_analytics", <<>>, organizational_analytics(driver, db))

DecisionTypes == {"promotion", "skill_development", "organizational_health", "unknown"}

MakeStrategicDecision ==
    /\ result.op = "none"
    /\ \E decision_type \in DecisionTypes, target_id \in QueryIds \cup {NULL} :
           /\ decision_type \in {"organizational_health", "unknown"} => target_id = NULL
           /\ Call("make_strategic_decision", <<decision_type, target_id>>,
                   make_strategic_decision(driver, db, decision_type, target_id))

CreateActionPlan ==
    /\ result.op = "none"
    /\ \E id \in QueryIds, engagement \in EngagementLevels \cup {NULL} :
           Call("create_action_plan", <<id, engagement>>,
                create_action_plan(driver, db, id, engagement))

ComputeTeamEngagement ==
    /\ result.op = "none"
    /\ \E dept \in {"Engineering", "Sales"} :
           Call("compute_team_engagement", <<dept>>, compute_team_engagement(driver, db, dept))

-----------------------------------------------------------------------------
(* Writing the survey's engagement back: neo4j_client.sync_df *)

MaxRows == 1

\* survey rows after engagement was derived: employee_id is an integer
SurveyRows == { [employee_id |-> 1, engagement |-> e] : e \in {"low", "high"} }

SurveyFrames == UNION { [1..n -> SurveyRows] : n \in 1..MaxRows }

SyncDf ==
    /\ result.op = "none"
    /\ connection_initialized
    /\ \E df \in SurveyFrames :
          IF Fault(driver) # "ok"
          THEN /\ db' = db
               /\ result' = [op |-> "sync_df", args |-> <<df>>] @@ Raise(Fault(driver))
          ELSE /\ db' = sync_df(db, df)
               /\ result' = [op |-> "sync_df", args |-> <<df>>] @@ Ret(NoneVal)
    /\ UNCHANGED <<env, conn>>

-----------------------------------------------------------------------------
(* Calls of the functions that read no store *)

MaxScore == 12
MaxActions == 2

\* scores from -MaxScore / ScoreScale to MaxScore / ScoreScale
Scores == (0 - MaxScore)..MaxScore

\* the action records a report is asked for: types of the template catalog and
\* types outside it, an action without a type, each urgency and none
ReportActions ==
    { [type |-> t, urgency |-> u] :
        t \in {"hire_external", "training_program", "knowledge_transfer", "promotion",
               "one_on_one_meeting", "workload_review"},
        u \in {"immediate", "high", "critical", "medium"} }
    \cup { [type |-> "mentorship"], [urgency |-> "high"] }

ActionLists == UNION { [1..n -> ReportActions] : n \in 0..MaxActions }

PureCall(op, args, val) ==
    /\ result.op = "none"
    /\ result' = [op |-> op, args |-> args] @@ Ret(val)
    /\ UNCHANGED <<db, env, conn>>

EngagementLevel ==
    /\ result.op = "none"
    /\ \E score \in Scores : PureCall("engagement_level", <<score>>, engagement_level(score))

AssessRisk ==
    /\ result.op = "none"
    /\ \E e \in EngagementLevels :
           PureCall("assess_risk", <<[engagement |-> e]>>, assess_risk([engagement |-> e]))

MakeDecision ==
    /\ result.op = "none"
    /\ \E e \in EngagementLevels :
           PureCall("make_decision", <<[engagement |-> e]>>, make_decision([engagement |-> e]))

\* engagement and level values of the table and outside it; NULL is None
ActionEngagements == EngagementLevels \cup {"Low", NULL}
ActionLevels == Levels \cup {"Intern", NULL}
ActionRoles == {"Software Engineer", "HR Manager", NULL}

RecommendEngagementAction ==
    /\ result.op = "none"
    /\ \E engagement \in ActionEngagements, employee_level \in ActionLevels,
          role \in ActionRoles :
           PureCall("recommend_engagement_action", <<engagement, employee_level, role>>,
                    recommend_engagement_action(engagement, employee_level, role))

GenerateActionExecutionReport ==
    /\ result.op = "none"
    /\ \E id \in QueryIds, actions_list \in ActionLists :
           PureCall("generate_action_execution_report", <<id, actions_list>>,
                    generate_action_execution_report(id, actions_list))

\* the id the action functions are called for: the store holds it in some
\* states and not in others
PlanIds == {"E1"}

\* skill gaps as identify_skill_gaps reports them, and one of another priority
PlanGaps ==
    { [skill |-> "Python", experts |-> 0, priority |-> "critical"],
      [skill |-> "Leadership", experts |-> 1, priority |-> "high"],
      [skill |-> "Sales", priority |-> "medium"] }

\* eligibility records: with and without a confidence
PlanEligibility ==
    { [eligible |-> TRUE, reason |-> Str("Senior level with multiple advanced skills"),
       confidence |-> 90],
      [eligible |-> TRUE, reason |-> Str("Manager level with advanced technical skills")],
      [eligible |-> FALSE, reason |-> Str("Employee not found")] }

\* decision data with none, one and all of the keys the plan reads
PlanDecisionData ==
    { <<>>,
      [engagement |-> "low"],
      [engagement |-> "high",
       promotion_eligible |-> [eligible |-> TRUE,
                               reason |-> Str("Manager level with advanced technical skills")],
       skill_gaps |-> <<[skill |-> "Python", experts |-> 0, priority |-> "critical"],
                        [skill |-> "Leadership", experts |-> 1, priority |-> "high"]>>] }

\* the engagement tiers and a value that is none of them
PlanEngagements == EngagementLevels \cup {"unknown"}

ExecuteEngagementAction ==
    /\ result.op = "none"
    /\ \E id \in PlanIds, level \in PlanEngagements :
           PureCall("execute_engagement_action",
                    <<id, "engagement_response", level>>,
                    execute_engagement_action(id, "engagement_response", level))

ExecuteSkillAction ==
    /\ result.op = "none"
    /\ \E id \in PlanIds, skill_gap \in PlanGaps :
           PureCall("execute_skill_action", <<id, skill_gap>>,
                    execute_skill_action(id, skill_gap))

ExecutePromotionAction ==
    /\ result.op = "none"
    /\ \E id \in PlanIds, promotion_eligibility \in PlanEligibility :
           PureCall("execute_promotion_action", <<id, promotion_eligibility>>,
                    execute_promotion_action(id, promotion_eligibility))

ExecuteComprehensiveActionPlan ==
    /\ result.op = "none"
    /\ \E id \in PlanIds, decision_data \in PlanDecisionData :
           PureCall("execute_comprehensive_action_plan", <<id, decision_data>>,
                    execute_comprehensive_action_plan(driver, id, decision_data))

-----------------------------------------------------------------------------
(* Connection: decisions/neo4j_database.py *)

\* variant: the driver object is kept when verify_connectivity() fails
connect_to_db_KeepsUnverified ==
    IF connection_initialized
    THEN [driver |-> driver, initialized |-> TRUE, error |-> connection_error,
          attempts |-> attempts, ret |-> driver # NoDriver]
    ELSE IF ~credentials
    THEN [driver |-> driver, initialized |-> TRUE, error |-> "credentials",
          attempts |-> attempts + 1, ret |-> FALSE]
    ELSE IF dbUp
    THEN [driver |-> attempts + 1, initialized |-> TRUE, error |-> connection_error,
          attempts |-> attempts + 1, ret |-> TRUE]
    ELSE [driver |-> attempts + 1, initialized |-> TRUE, error |-> "connect",
          attempts |-> attempts + 1, ret |-> FALSE]

\* _load_credentials() and GraphDatabase.driver(...).verify_connectivity():
\* what connect_to_db leaves in (driver, _connection_initialized,
\* _connection_error), the number of attempts made, and what it returns
connect_to_db ==
    IF connection_initialized
    THEN [driver |-> driver, initialized |-> TRUE, error |-> connection_error,
          attempts |-> attempts, ret |-> driver # NoDriver]
    ELSE IF ~credentials
    THEN [driver |-> driver, initialized |-> TRUE, error |-> "credentials",
          attempts |-> attempts + 1, ret |-> FALSE]
    ELSE IF dbUp
    THEN [driver |-> attempts + 1, initialized |-> TRUE, error |-> connection_error,
          attempts |-> attempts + 1, ret |-> TRUE]
    ELSE [driver |-> NoDriver, initialized |-> TRUE, error |-> "connect",
          attempts |-> attempts + 1, ret |-> FALSE]

\* get_driver(): connects when the connection is not initialised
get_driver ==
    IF ~connection_initialized
    THEN [connect_to_db EXCEPT !.ret = connect_to_db.driver]
    ELSE [driver |-> driver, initialized |-> connection_initialized,
          error |-> connection_error, attempts |-> attempts, ret |-> driver]

SetConn(c) ==
    /\ driver' = c.driver
    /\ connection_initialized' = c.initialized
    /\ connection_error' = c.error
    /\ attempts' = c.attempts

MaxAttempts == 3

\* a call that would make one more connection attempt than MaxAttempts is
\* left out
MayAttempt == connection_initialized \/ attempts < MaxAttempts

ConnectToDb ==
    /\ result.op = "none"
    /\ MayAttempt
    /\ SetConn(connect_to_db)
    /\ result' = [op |-> "connect_to_db", args |-> <<>>] @@ Ret(connect_to_db.ret)
    /\ UNCHANGED <<db, env>>

GetDriver ==
    /\ result.op = "none"
    /\ MayAttempt
    /\ SetConn(get_driver)
    /\ result' = [op |-> "get_driver", args |-> <<>>] @@ Ret(get_driver.ret)
    /\ UNCHANGED <<db, env>>

IsConnected ==
    /\ result.op = "none"
    /\ result' = [op |-> "is_connected", args |-> <<>>] @@ Ret(driver # NoDriver)
    /\ UNCHANGED <<db, env, conn>>

\* variant: the driver is dropped but the initialised flag is left set
DisconnectDb_KeepsFlag ==
    /\ result.op = "none"
    /\ IF driver # NoDriver
       THEN /\ driver' = NoDriver
            /\ UNCHANGED <<connection_initialized, connection_error, attempts>>
       ELSE UNCHANGED conn
    /\ result' = [op |-> "disconnect_db", args |-> <<>>] @@ Ret(NoneVal)
    /\ UNCHANGED <<db, env>>

DisconnectDb ==
    /\ result.op = "none"
    /\ IF driver # NoDriver
       THEN /\ driver' = NoDriver
            /\ connection_initialized' = FALSE
            /\ UNCHANGED <<connection_error, attempts>>
       ELSE UNCHANGED conn
    /\ result' = [op |-> "disconnect_db", args |-> <<>>] @@ Ret(NoneVal)
    /\ UNCHANGED <<db, env>>

\* the environment between two calls: the credentials file appears or goes,
\* the server starts or stops answering
EnvChange ==
    /\ result.op = "none"
    /\ \E c \in BOOLEAN, u \in BOOLEAN :
        /\ <<c, u>> # <<credentials, dbUp>>
        /\ credentials' = c
        /\ dbUp' = u
    /\ UNCHANGED <<db, conn, result>>

-----------------------------------------------------------------------------
(* Initialisation: decisions/neo4j_database.py init_db *)

MaxInitRuns == 2

\* the session.run calls of init_db after the optional clear_all, in order
InitSteps ==
    << <<"create_department", "D1", "Engineering">>,
       <<"create_department", "D2", "HR">>,
       <<"create_department", "D3", "Sales">>,
       <<"create_role", "R1", "Software Engineer">>,
       <<"create_role", "R2", "Engineering Manager">>,
       <<"create_role", "R3", "HR Manager">>,
       <<"create_role", "R4", "Sales Executive">>,
       <<"create_skill", "Python">>,
       <<"create_skill", "Neo4j">>,
       <<"create_skill", "Leadership">>,
       <<"create_skill", "Recruitment">>,
       <<"create_skill", "Negotiation">>,
       <<"create_employee", "E1", "Alice", "Senior">>,
       <<"create_employee", "E2", "Bob", "Manager">>,
       <<"create_employee", "E3", "Carol", "Senior">>,
       <<"create_employee", "E4", "David", "Junior">>,
       <<"create_works_in_relationship", "E1", "Engineering">>,
       <<"create_works_in_relationship", "E2", "Engineering">>,
       <<"create_works_in_relationship", "E3", "HR">>,
       <<"create_works_in_relationship", "E4", "Sales">>,
       <<"create_has_role_relationship", "E1", "Software Engineer">>,
       <<"create_has_role_relationship", "E2", "Engineering Manager">>,
       <<"create_has_role_relationship", "E3", "HR Manager">>,
       <<"create_has_role_relationship", "E4", "Sales Executive">>,
       <<"create_has_skill_relationship", "E1", "Python", "Advanced">>,
       <<"create_has_skill_relationship", "E1", "Neo4j", "Intermediate">>,
       <<"create_has_skill_relationship", "E2", "Leadership", NULL>>,
       <<"create_has_skill_relationship", "E3", "Recruitment", NULL>>,
       <<"create_has_skill_relationship", "E4", "Negotiation", NULL>>,
       <<"create_reports_to_relationship", "E1", "E2">> >>

ApplyStep(S, step) ==
    CASE step[1] = "clear_all" -> clear_all(S)
      [] step[1] = "create_department" -> create_department(S, step[2], step[3])
      [] step[1] = "create_role" -> create_role(S, step[2], step[3])
      [] step[1] = "create_skill" -> create_skill(S, step[2])
      [] step[1] = "create_employee" -> create_employee(S, step[2], step[3], step[4])
      [] step[1] = "create_works_in_relationship" ->
            create_works_in_relationship(S, step[2], step[3])
      [] step[1] = "create_has_role_relationship" ->
            create_has_role_relationship(S, step[2], step[3])
      [] step[1] = "create_has_skill_relationship" ->
            create_has_skill_relationship(S, step[2], step[3], step[4])
      [] step[1] = "create_reports_to_relationship" ->
            create_reports_to_relationship(S, step[2], step[3])

RECURSIVE ApplySteps(_, _, _)
ApplySteps(S, steps, n) ==
    IF n = 0 THEN S
    ELSE ApplyStep(ApplySteps(S, steps, n - 1), steps[n])

InitCalls(clear_first) ==
    IF clear_first THEN <<<<"clear_all">>>> \o InitSteps ELSE InitSteps

\* the store and the status dict after done calls of init_db went through and
\* the next one, if any is left, raised
init_db(S, clear_first, done) ==
    [store |-> ApplySteps(S, InitCalls(clear_first), done),
     ret |-> IF done = Len(InitCalls(clear_first))
             THEN [success |-> TRUE, message |-> Str("Database initialized successfully")]
             ELSE [success |-> FALSE,
                   message |-> [fmt |-> "Database initialization failed: {e}",
                                e |-> "ServiceUnavailable"]]]

\* where a run of init_db is cut short: at its first call, right after the
\* clear, before the first HAS_ROLE relationship, before the first HAS_SKILL
\* relationship, before the last relationship
InitCuts(clear_first) ==
    LET c == IF clear_first THEN 1 ELSE 0
    IN  {0, c, c + 20, c + 24, c + 29}

\* variant: clear_first is honoured before the connection is looked at
InitDb_ClearsUnconnected ==
    /\ result.op = "none"
    /\ MayAttempt
    /\ SetConn(get_driver)
    /\ \E clear_first \in BOOLEAN :
        IF get_driver.ret = NoDriver
        THEN /\ db' = IF clear_first THEN clear_all(db) ELSE db
             /\ result' = [op |-> "init_db", args |-> <<clear_first>>]
                    @@ Ret([success |-> FALSE,
                            message |-> Str("Database not connected. Cannot initialize.")])
        ELSE \E done \in IF dbUp THEN InitCuts(clear_first) \cup {Len(InitCalls(clear_first))}
                         ELSE {0} :
                /\ \A v \in DOMAIN init_db(db, clear_first, done).store.nodes :
                        init_db(db, clear_first, done).store.nodes[v] <= MaxInitRuns
                /\ db' = init_db(db, clear_first, done).store
                /\ result' = [op |-> "init_db", args |-> <<clear_first>>]
                        @@ Ret(init_db(db, clear_first, done).ret)
    /\ UNCHANGED env

InitDb ==
    /\ result.op = "none"
    /\ MayAttempt
    /\ SetConn(get_driver)
    /\ \E clear_first \in BOOLEAN :
        IF get_driver.ret = NoDriver
        THEN /\ db' = db
             /\ result' = [op |-> "init_db", args |-> <<clear_first>>]
                    @@ Ret([success |-> FALSE,
                            message |-> Str("Database not connected. Cannot initialize.")])
        ELSE \E done \in IF dbUp THEN InitCuts(clear_first) \cup {Len(InitCalls(clear_first))}
                         ELSE {0} :
                /\ \A v \in DOMAIN init_db(db, clear_first, done).store.nodes :
                        init_db(db, clear_first, done).store.nodes[v] <= MaxInitRuns
                /\ db' = init_db(db, clear_first, done).store
                /\ result' = [op |-> "init_db", args |-> <<clear_first>>]
                        @@ Ret(init_db(db, clear_first, done).ret)
    /\ UNCHANGED env

-----------------------------------------------------------------------------
Init ==
    /\ db = EmptyStore
    /\ credentials = TRUE
    /\ dbUp = TRUE
    /\ driver = Driver
    /\ connection_initialized = TRUE
    /\ connection_error = NULL
    /\ attempts = 1
    /\ result = Idle

Next ==
    \/ Return
    \/ CreateDepartment
    \/ CreateRole
    \/ CreateSkill
    \/ CreateEmployee
    \/ CreateWorksIn
    \/ CreateHasRole
    \/ CreateHasSkill
    \/ CreateReportsTo
    \/ ClearAll
    \/ AnalyzeEmployee
    \/ GetEmployeeSkills
    \/ AssessPromotionEligibility
    \/ RecommendSkillDevelopment
    \/ AssessTeamStructure
    \/ IdentifySkillGaps
    \/ AnalyzeEngagementWithContext
    \/ ComprehensiveEmployeeAssessment
    \/ OrganizationalAnalytics
    \/ MakeStrategicDecision
    \/ CreateActionPlan
    \/ ComputeTeamEngagement
    \/ AssessRisk
    \/ ExecuteEngagementAction
    \/ ExecuteSkillAction
    \/ ExecutePromotionAction
    \/ ExecuteComprehensiveActionPlan

Spec == Init /\ [][Next]_vars

\* the functions that read no store, on every input of the bounded sets
NextPure ==
    \/ Return
    \/ EngagementLevel
    \/ AssessRisk
    \/ MakeDecision
    \/ GenerateActionExecutionReport
    \/ ExecuteEngagementAction
    \/ ExecuteSkillAction
    \/ ExecutePromotionAction
    \/ ExecuteComprehensiveActionPlan
    \/ RecommendEngagementAction

SpecPure == Init /\ [][NextPure]_vars

\* the dashboard's process: module state as loaded, store as found
InitDbSpec ==
    /\ db = EmptyStore
    /\ credentials \in BOOLEAN
    /\ dbUp \in BOOLEAN
    /\ driver = NoDriver
    /\ connection_initialized = FALSE
    /\ connection_error = NULL
    /\ attempts = 0
    /\ result = Idle

NextDb ==
    \/ Return
    \/ EnvChange
    \/ ConnectToDb
    \/ GetDriver
    \/ IsConnected
    \/ InitDb
    \/ AnalyzeEmployee
    \/ GetEmployeeSkills
    \/ AssessPromotionEligibility
    \/ RecommendSkillDevelopment
    \/ AssessTeamStructure
    \/ IdentifySkillGaps
    \/ AnalyzeEngagementWithContext
    \/ ComprehensiveEmployeeAssessment
    \/ OrganizationalAnalytics
    \/ MakeStrategicDecision
    \/ CreateActionPlan
    \/ ComputeTeamEngagement

SpecDb == InitDbSpec /\ [][NextDb]_vars

\* the connection calls alone, in any order, while the environment changes
NextConn ==
    \/ Return
    \/ EnvChange
    \/ ConnectToDb
    \/ GetDriver
    \/ IsConnected
    \/ DisconnectDb

SpecConn == InitDbSpec /\ [][NextConn]_vars

\* the module's own calls: the connection, init_db, and the skill-gap report
\* read from the store that init_db leaves
NextInit ==
    \/ Return
    \/ EnvChange
    \/ ConnectToDb
    \/ DisconnectDb
    \/ InitDb
    \/ IdentifySkillGaps

SpecInit == InitDbSpec /\ [][NextInit]_vars

\* the survey's process: it initialises the store, writes the survey's
\* engagement back and reads the employees and the teams
NextSurvey ==
    \/ Return
    \/ ConnectToDb
    \/ InitDb
    \/ SyncDf
    \/ AnalyzeEmployee
    \/ ComputeTeamEngagement

SpecSurvey == InitDbSpec /\ [][NextSurvey]_vars

-----------------------------------------------------------------------------
(* Properties *)

\* C1: assess_promotion_eligibility on an existing employee is eligible
\* exactly when the level is Senior with at least 2 Advanced skills or Manager
\* with at least 1; the confidence is 0.85 in the Senior branch, 0.7 in the
\* Manager branch and 0.9 when not eligible.
C1_PromotionEligibility ==
    (result.op = "assess_promotion_eligibility" /\ MatchNodes(db, "Employee", "id", result.args[1]) # {})
    => /\ result.kind = "return"
       /\ \E e \in MatchNodes(db, "Employee", "id", result.args[1]),
             skills \in get_employee_skills(driver, db, result.args[1]) :
            LET n == Cardinality({s \in DOMAIN skills.val : skills.val[s] = "Advanced"})
                senior == e.v.level = "Senior" /\ n >= 2
                manager == e.v.level = "Manager" /\ n >= 1
            IN  /\ result.val.eligible = (senior \/ manager)
                /\ senior => result.val.confidence = 85
                /\ manager => result.val.confidence = 70
                /\ ~(senior \/ manager) => result.val.confidence = 90

\* a Senior with exactly two Advanced skills was found eligible
C1_Witness ==
    /\ result.op = "assess_promotion_eligibility"
    /\ \E e \in MatchNodes(db, "Employee", "id", result.args[1]) : e.v.level = "Senior"
    /\ result.kind = "return"
    /\ result.val.eligible
    /\ result.val.confidence = 85
    /\ Cardinality(result.val.skills) = 2

\* C3: identify_skill_gaps lists each Skill entity that no employee holds at
\* Advanced as critical, each Skill entity with exactly one such holder as
\* high, no Skill entity with two or more, and nothing else; the experts of an
\* entry is the holder count of the skill and total_gaps the length of the list.
C3_SkillGapsAsStated ==
    result.op = "identify_skill_gaps"
    => /\ result.kind = "return"
       /\ LET gaps == result.val.critical_skill_gaps
              skills == {h \in Handles(db) : h.v.label = "Skill"}
              holders(s) ==
                  { e \in Handles(db) :
                      /\ e.v.label = "Employee"
                      /\ \E r \in DOMAIN db.rels :
                            r.type = "HAS_SKILL" /\ r.from = e /\ r.to = s
                            /\ r.level = "Advanced" }
              listed(s, priority) ==
                  \E i \in 1..Len(gaps) :
                      /\ gaps[i].skill = s.v.name
                      /\ gaps[i].priority = priority
                      /\ gaps[i].experts = Cardinality(holders(s))
          IN  /\ \A s \in skills :
                    /\ Cardinality(holders(s)) = 0 => listed(s, "critical")
                    /\ Cardinality(holders(s)) = 1 => listed(s, "high")
                    /\ Cardinality(holders(s)) >= 2
                        => \A i \in 1..Len(gaps) : gaps[i].skill # s.v.name
              /\ \A i \in 1..Len(gaps) : \E s \in skills : gaps[i].skill = s.v.name
              /\ result.val.total_gaps = Len(gaps)

\* C4: recommend_skill_development on an existing employee returns the
\* required skills of the role from the fixed table, in table order, without
\* the skills the employee holds at any proficiency; a role outside the table
\* gives the empty list; priority is high exactly when at least 2 skills are
\* recommended, else medium.
C4_SkillRecommendation ==
    ( /\ result.op = "recommend_skill_development"
      /\ MatchNodes(db, "Employee", "id", result.args[1]) # {}
      /\ driver # NoDriver /\ dbUp )
    => /\ result.kind = "return"
       /\ LET role == result.val.current_role
              held == { r.to.v.name :
                          r \in { x \in DOMAIN db.rels :
                                    /\ x.type = "HAS_SKILL"
                                    /\ x.from \in MatchNodes(db, "Employee", "id", result.args[1]) } }
              required ==
                  CASE role = "Software Engineer" -> <<"Python", "Neo4j">>
                    [] role = "Engineering Manager" -> <<"Leadership", "Python">>
                    [] role = "HR Manager" -> <<"Recruitment", "Leadership">>
                    [] role = "Sales Executive" -> <<"Negotiation">>
                    [] OTHER -> <<>>
              expected == SelectSeq(required, LAMBDA sk : sk \notin held)
          IN  /\ \E e \in MatchNodes(db, "Employee", "id", result.args[1]) :
                    role \in OrNull(Targets(db, "HAS_ROLE", e, "Role", "title"))
              /\ result.val.recommended_skills = expected
              /\ result.val.priority = IF Len(expected) >= 2 THEN "high" ELSE "medium"

\* an Engineering Manager who holds Leadership, recorded without a level, is
\* recommended Python alone
C4_Witness ==
    /\ result.op = "recommend_skill_development"
    /\ result.kind = "return"
    /\ MatchNodes(db, "Employee", "id", result.args[1]) # {}
    /\ result.val.current_role = "Engineering Manager"
    /\ DOMAIN result.val.current_skills = {"Leadership"}
    /\ result.val.current_skills["Leadership"] = "Basic"
    /\ result.val.recommended_skills = <<"Python">>
    /\ result.val.priority = "medium"

\* C5: the plan of create_action_plan for an existing employee holds, in this
\* order and at most once each, a skill_development entry exactly when skills
\* are recommended, an engagement_action entry exactly when an engagement level
\* was given and a promotion_pathway entry exactly when the employee is
\* eligible; the engagement_action priority is high exactly for engagement
\* low, else medium; the timeline is "90 days".
C5_ActionPlan ==
    (result.op = "create_action_plan" /\ MatchNodes(db, "Employee", "id", result.args[1]) # {})
    => /\ result.kind = "return"
       /\ LET plan == result.val
              engagement == result.args[2]
              actions == plan.planned_actions
          IN  /\ plan.timeline = "90 days"
              /\ \E rec \in recommend_skill_development(driver, db, result.args[1]),
                    pe \in assess_promotion_eligibility(driver, db, result.args[1]) :
                    /\ plan.current_state.promotion_eligible = pe.val.eligible
                    /\ [i \in 1..Len(actions) |-> actions[i].type]
                        = When(rec.val.recommended_skills # <<>>, "skill_development")
                          \o When(engagement # NULL, "engagement_action")
                          \o When(pe.val.eligible, "promotion_pathway")
                    /\ \A i \in 1..Len(actions) :
                          actions[i].type = "skill_development"
                            => actions[i].skills = rec.val.recommended_skills
              /\ \A i \in 1..Len(actions) :
                    actions[i].type = "engagement_action"
                        => actions[i].priority
                            = IF engagement = "low" THEN "high" ELSE "medium"

\* a plan with all three entries, for medium engagement
C5_Witness ==
    /\ result.op = "create_action_plan"
    /\ result.kind = "return"
    /\ MatchNodes(db, "Employee", "id", result.args[1]) # {}
    /\ result.args[2] = "medium"
    /\ Len(result.val.planned_actions) = 3
    /\ result.val.planned_actions[2].priority = "medium"

\* C2: engagement_level accepts every numeric score and gives low exactly
\* for a score of at most 2, medium exactly for the score 3 and high exactly
\* for a score above 3.
C2_EngagementLevelAsStated ==
    result.op = "engagement_level"
    => /\ result.kind = "return"
       /\ LET score == result.args[1]
          IN  /\ result.val \in {"low", "medium", "high"}
              /\ result.val = "low" <=> score <= 2 * ScoreScale
              /\ result.val = "medium" <=> score = 3 * ScoreScale
              /\ result.val = "high" <=> score > 3 * ScoreScale

\* C8: for an employee id that the reachable Fact Store does not hold, no
\* per-employee entry point raises: analyze_employee_from_db returns None,
\* get_employee_skills the empty mapping, assess_promotion_eligibility
\* {eligible: false, reason: "Employee not found"}, analyze_engagement_with_context
\* a not-found status, and comprehensive_employee_assessment, create_action_plan
\* and make_strategic_decision (promotion, skill_development)
\* {status: "error", message: "Employee not found"}.
C8_AbsentEmployee ==
    LET op == result.op
        strategic == op = "make_strategic_decision"
        id == IF strategic THEN result.args[2] ELSE result.args[1]
    IN  ( /\ op \in {"analyze_employee_from_db", "get_employee_skills",
                     "assess_promotion_eligibility", "analyze_engagement_with_context",
                     "comprehensive_employee_assessment", "create_action_plan",
                     "make_strategic_decision"}
          /\ strategic => result.args[1] \in {"promotion", "skill_development"}
          /\ id # NULL
          /\ driver # NoDriver /\ dbUp
          /\ ~ \E h \in Handles(db) : h.v.label = "Employee" /\ h.v.id = id )
        => /\ result.kind = "return"
           /\ CASE op = "analyze_employee_from_db" -> result.val = [none |-> TRUE]
                [] op = "get_employee_skills" -> DOMAIN result.val = {}
                [] op = "assess_promotion_eligibility" ->
                        result.val = [eligible |-> FALSE,
                                      reason |-> Str("Employee not found")]
                [] op = "analyze_engagement_with_context" ->
                        result.val = [status |-> "employee_not_found"]
                [] OTHER ->
                        result.val = [status |-> "error",
                                      message |-> Str("Employee not found")]

\* a strategic promotion decision asked for an id that no employee of a
\* non-empty store carries
C8_Witness ==
    /\ result.op = "make_strategic_decision"
    /\ result.args = <<"promotion", "E3">>
    /\ \E h \in Handles(db) : h.v.label = "Employee"
    /\ result.kind = "return"
    /\ result.val.status = "error"

\* C9: in the report of generate_action_execution_report total_actions is the
\* length of the list; immediate, high_priority and critical count the actions
\* of that urgency, so that their sum is at most total_actions; budget_items
\* counts the actions whose type needs a budget in the catalog (skill_development,
\* training_program, hire_external) and approvals_required those whose type
\* needs an approval (role_change, promotion, hire_external); a type outside
\* the catalog counts for neither; one hire_external action alone gives 1 and 1.
C9_ExecutionReport ==
    result.op = "generate_action_execution_report"
    => /\ result.kind = "return"
       /\ LET actions == result.args[2]
              summary == result.val.action_summary
              needs == result.val.resource_requirements
              count(P(_)) == Cardinality({i \in 1..Len(actions) : P(actions[i])})
              urgency(a) == IF "urgency" \in DOMAIN a THEN a.urgency ELSE "absent"
              type(a) == IF "type" \in DOMAIN a THEN a.type ELSE "absent"
          IN  /\ summary.total_actions = Len(actions)
              /\ summary.immediate = count(LAMBDA a : urgency(a) = "immediate")
              /\ summary.high_priority = count(LAMBDA a : urgency(a) = "high")
              /\ summary.critical = count(LAMBDA a : urgency(a) = "critical")
              /\ summary.immediate + summary.high_priority + summary.critical
                    <= summary.total_actions
              /\ needs.budget_items
                    = count(LAMBDA a : type(a) \in {"skill_development", "training_program",
                                                    "hire_external"})
              /\ needs.approvals_required
                    = count(LAMBDA a : type(a) \in {"role_change", "promotion",
                                                    "hire_external"})
              /\ (Len(actions) = 1 /\ type(actions[1]) = "hire_external")
                    => needs.budget_items = 1 /\ needs.approvals_required = 1

\* the report of a list that holds one hire_external action and nothing else
C9_Witness ==
    /\ result.op = "generate_action_execution_report"
    /\ Len(result.args[2]) = 1
    /\ "type" \in DOMAIN result.args[2][1]
    /\ result.args[2][1].type = "hire_external"
    /\ result.val.resource_requirements = [budget_items |-> 1, approvals_required |-> 1]

\* C10: assess_risk, and make_decision which hands over to it, give
\* {risk: burnout, priority: high, confidence: 0.7} for engagement low and
\* the one result {risk: none, priority: low, confidence: 0.9} for engagement
\* medium and for engagement high.
C10_AssessRisk ==
    result.op \in {"assess_risk", "make_decision"}
    => /\ result.kind = "return"
       /\ result.args[1].engagement \in {"low", "medium", "high"}
       /\ result.args[1].engagement = "low"
            => result.val = [risk |-> "burnout", priority |-> "high", confidence |-> 70]
       /\ result.args[1].engagement \in {"medium", "high"}
            => result.val = [risk |-> "none", priority |-> "low", confidence |-> 90]

\* medium engagement was assessed as no risk
C10_Witness ==
    /\ result.op = "assess_risk"
    /\ result.args[1].engagement = "medium"
    /\ result.val.risk = "none"

\* C6: on the store that a successful init_db(clear_first=True) leaves,
\* whatever it held before, create_action_plan(driver, 'E1', 'low') returns
\* a plan: E1 is Alice, Senior, Software Engineer, Engineering; she is not
\* promotion eligible; no skill is recommended; the planned actions are one
\* engagement_action of priority high with the actions for low and Senior.
C6_SeededActionPlan ==
    ( /\ result.op = "create_action_plan"
      /\ result.args = <<"E1", "low">>
      /\ driver # NoDriver /\ dbUp
      /\ db = init_db(db, TRUE, Len(InitCalls(TRUE))).store )
    => /\ result.kind = "return"
       /\ "status" \notin DOMAIN result.val
       /\ result.val.employee = [id |-> "E1", name |-> "Alice", level |-> "Senior",
                                 role |-> "Software Engineer",
                                 department |-> "Engineering"]
       /\ result.val.current_state.promotion_eligible = FALSE
       /\ result.val.planned_actions
            = << [type |-> "engagement_action",
                  actions |-> <<"One-on-one leadership discussion",
                                "Explore new challenges",
                                "Consider sabbatical">>,
                  priority |-> "high",
                  timeline |-> "immediate"] >>

\* the plan was asked for right on the seeded store
C6_Witness ==
    /\ result.op = "create_action_plan"
    /\ result.args = <<"E1", "low">>
    /\ db = init_db(db, TRUE, Len(InitCalls(TRUE))).store
    /\ result.kind = "return"
    /\ Len(result.val.planned_actions) = 1

\* C7: when get_driver() gave None, every entry point that reads the store
\* returns a structured error and none raises.
C7_UnavailableAsStated ==
    ( /\ result.op \in {"analyze_employee_from_db", "get_employee_skills",
                        "assess_promotion_eligibility", "recommend_skill_development",
                        "assess_team_structure", "identify_skill_gaps",
                        "comprehensive_employee_assessment", "create_action_plan",
                        "make_strategic_decision", "compute_team_engagement"}
      /\ driver = NoDriver )
    => /\ result.kind = "return"
       /\ "status" \in DOMAIN result.val
       /\ result.val.status = "error"

\* C11: for an existing employee and an engagement low, medium or high, the
\* risk_factors of analyze_engagement_with_context hold the burnout factor
\* exactly when engagement is low, the attrition factor exactly when it is low
\* and the level is Senior, the monitor-closely factor exactly when it is
\* medium and the level is Senior, and nothing else.
C11_RiskFactors ==
    ( /\ result.op = "analyze_engagement_with_context"
      /\ MatchNodes(db, "Employee", "id", result.args[1]) # {} )
    => /\ result.kind = "return"
       /\ \E e \in MatchNodes(db, "Employee", "id", result.args[1]) :
            LET engagement == result.args[2]
                factors == result.val.risk_factors
                has(f) == \E i \in 1..Len(factors) : factors[i] = f
                burnout == "High burnout risk - intervention needed"
                attrition == "Senior-level employee at risk of leaving"
                monitor == "Senior employee with moderate engagement - monitor closely"
            IN  /\ result.val.level = e.v.level
                /\ has(burnout) <=> engagement = "low"
                /\ has(attrition) <=> (engagement = "low" /\ e.v.level = "Senior")
                /\ has(monitor) <=> (engagement = "medium" /\ e.v.level = "Senior")
                /\ \A i \in 1..Len(factors) :
                        /\ factors[i] \in {burnout, attrition, monitor}
                        /\ \A j \in 1..Len(factors) : factors[i] = factors[j] => i = j
                /\ engagement = "high" => factors = <<>>
                /\ (engagement = "medium" /\ e.v.level \in {"Junior", "Manager"})
                        => factors = <<>>

\* a Senior with low engagement got both the burnout and the attrition factor
C11_Witness ==
    /\ result.op = "analyze_engagement_with_context"
    /\ result.kind = "return"
    /\ result.args[2] = "low"
    /\ "risk_factors" \in DOMAIN result.val
    /\ result.val.level = "Senior"
    /\ Len(result.val.risk_factors) = 2

\* C12: for an existing employee and an engagement low, medium or high, the
\* opportunities of analyze_engagement_with_context hold the promotion
\* candidate entry exactly when engagement is high and the employee is
\* eligible, the mentor entry exactly when it is high and the employee holds at
\* least 2 skills, the skill-development project entry exactly when it is low
\* and the employee holds at least 2 skills, and nothing else; skills_count is
\* the size of the skill mapping and promotion_eligible the verdict of
\* assess_promotion_eligibility.
C12_Opportunities ==
    ( /\ result.op = "analyze_engagement_with_context"
      /\ MatchNodes(db, "Employee", "id", result.args[1]) # {} )
    => /\ result.kind = "return"
       /\ \E skills \in get_employee_skills(driver, db, result.args[1]),
             pe \in assess_promotion_eligibility(driver, db, result.args[1]) :
            LET engagement == result.args[2]
                n == Cardinality(DOMAIN skills.val)
                opps == result.val.opportunities
                has(f) == \E i \in 1..Len(opps) : opps[i] = f
                candidate == "Strong candidate for promotion"
                mentor == "Potential mentor for junior team members"
                project == "Consider skill-development project to boost engagement"
            IN  /\ result.val.skills_count = n
                /\ result.val.promotion_eligible = pe.val.eligible
                /\ has(candidate) <=> (engagement = "high" /\ pe.val.eligible)
                /\ has(mentor) <=> (engagement = "high" /\ n >= 2)
                /\ has(project) <=> (engagement = "low" /\ n >= 2)
                /\ \A i \in 1..Len(opps) :
                        /\ opps[i] \in {candidate, mentor, project}
                        /\ \A j \in 1..Len(opps) : opps[i] = opps[j] => i = j
                /\ engagement = "medium" => opps = <<>>

\* a highly engaged, eligible holder of two skills is both candidate and mentor
C12_Witness ==
    /\ result.op = "analyze_engagement_with_context"
    /\ result.kind = "return"
    /\ result.args[2] = "high"
    /\ "opportunities" \in DOMAIN result.val
    /\ result.val.skills_count = 2
    /\ result.val.promotion_eligible
    /\ Len(result.val.opportunities) = 2


\* C13: make_strategic_decision(driver, "organizational_health") on any store:
\* strategic_decisions holds, in the order of the skill gaps of the analytics,
\* one hire_external_expert decision per critical gap and one
\* develop_internal_talent decision per high gap, each naming the gap's skill;
\* after them exactly one establish_reporting_structure decision iff the store
\* has no REPORTS_TO edge; and nothing else, so its length is the number of
\* gaps plus 1 without reporting edges and plus 0 with them.
C13_OrganizationalHealth ==
    (/\ result.op = "make_strategic_decision"
     /\ result.args[1] = "organizational_health"
     /\ result.kind = "return")
    => LET gaps == result.val.analytics.skill_gaps.critical_skill_gaps
           decisions == result.val.strategic_decisions
           no_edges == ~ \E r \in DOMAIN db.rels : r.type = "REPORTS_TO"
           n == Len(gaps)
       IN  /\ result.val.decision_type = "organizational_strategy"
           /\ Len(decisions) = n + (IF no_edges THEN 1 ELSE 0)
           /\ \A i \in 1..n :
                  /\ gaps[i].priority \in {"critical", "high"}
                  /\ decisions[i].action = (IF gaps[i].priority = "critical"
                                            THEN "hire_external_expert"
                                            ELSE "develop_internal_talent")
                  /\ decisions[i].skill = gaps[i].skill
           /\ no_edges => decisions[n + 1].action = "establish_reporting_structure"
           /\ no_edges <=> (result.val.analytics.team_structure.total_reports = 0)

\* a store with a critical gap, a high gap and no reporting edge: three decisions
C13_Witness ==
    /\ result.op = "make_strategic_decision"
    /\ result.args[1] = "organizational_health"
    /\ result.kind = "return"
    /\ Len(result.val.strategic_decisions) = 3
    /\ \E i, j \in 1..2 :
          /\ result.val.strategic_decisions[i].action = "hire_external_expert"
          /\ result.val.strategic_decisions[j].action = "develop_internal_talent"
    /\ result.val.strategic_decisions[3].action = "establish_reporting_structure"


\* C14: every Rule Engine and Action Planner operation leaves the store as it
\* found it: the nodes, their properties and the relationships are the same
\* after the call as before, whether the id it was given exists or not.
C14_ReadOnly ==
    [][ LET ReadOnlyOps ==
              {"assess_risk", "analyze_employee_from_db", "get_employee_skills",
               "assess_promotion_eligibility", "recommend_skill_development",
               "assess_team_structure", "identify_skill_gaps",
               "analyze_engagement_with_context", "comprehensive_employee_assessment",
               "organizational_analytics", "make_strategic_decision",
               "create_action_plan", "execute_engagement_action",
               "execute_skill_action", "execute_promotion_action",
               "execute_comprehensive_action_plan"}
        IN  (result.op = "none" /\ result'.op \in ReadOnlyOps) => db' = db ]_vars

\* a plan was asked for an id the store does not hold, on a store that holds
\* nodes and relationships
C14_Witness ==
    /\ result.op = "create_action_plan"
    /\ result.kind = "return"
    /\ Prop(result.val, "status") = "error"
    /\ DOMAIN db.nodes # {}
    /\ DOMAIN db.rels # {}


\* C15: the result of comprehensive_employee_assessment, create_action_plan,
\* organizational_analytics and make_strategic_decision is determined by the
\* arguments and the store's contents: whatever the call returned, every
\* return the operation can make for the same arguments on the same store is
\* equal to it (time stamps are the same symbol in every result).
C15_RecomputedAsStated ==
    LET Same(outcomes) ==
            \A o \in outcomes : o.kind = "return" => o.val = result.val
    IN  result.kind = "return" =>
        /\ result.op = "comprehensive_employee_assessment" =>
              Same(comprehensive_employee_assessment(driver, db, result.args[1],
                                                     result.args[2]))
        /\ result.op = "create_action_plan" =>
              Same(create_action_plan(driver, db, result.args[1], result.args[2]))
        /\ result.op = "organizational_analytics" =>
              Same(organizational_analytics(driver, db))
        /\ result.op = "make_strategic_decision" =>
              Same(make_strategic_decision(driver, db, result.args[1], result.args[2]))


\* C16: in every store that calls of init_db lead to, entity keys are unique:
\* no two Employee nodes with one id, no two Department nodes with one name,
\* no two Role nodes with one title, no two Skill nodes with one name.
C16_UniqueKeysAsStated ==
    LET Key(v) == IF v.label = "Employee" THEN Prop(v, "id")
                  ELSE IF v.label = "Role" THEN Prop(v, "title")
                  ELSE Prop(v, "name")
    IN  \A h1, h2 \in Handles(db) :
            (h1.v.label = h2.v.label /\ Key(h1.v) = Key(h2.v)) => h1 = h2


\* C17: after sync_df(driver, df) into a store that init_db populated, every
\* Employee node the Rule Engine reads for a surveyed employee (id "E<k>" for
\* the row's employee_id k) has the row's engagement, no Employee node was
\* made beside it for that employee, and the rows compute_team_engagement
\* reads for a department hold the employee with that engagement.
C17_SyncedEngagementAsStated ==
    (result.op = "sync_df" /\ result.kind = "return")
    => \A i \in 1..Len(result.args[1]) :
         LET row == result.args[1][i]
             emp_id == "E" \o ToString(row.employee_id)
             last == \A j \in (i + 1)..Len(result.args[1]) :
                        result.args[1][j].employee_id # row.employee_id
         IN  (last /\ MatchNodes(db, "Employee", "id", emp_id) # {})
             => /\ \A h \in MatchNodes(db, "Employee", "id", emp_id) :
                      Prop(h.v, "engagement") = row.engagement
                /\ \A h \in MatchNodes(db, "Employee", "employee_id", row.employee_id) :
                      Prop(h.v, "id") = emp_id
                /\ \A r \in DOMAIN db.rels :
                      (r.type = "WORKS_IN" /\ Prop(r.from.v, "id") = emp_id)
                      => Prop(r.from.v, "engagement") = row.engagement


\* C18: assess_team_structure() on any store: structure holds exactly one
\* entry per REPORTS_TO edge, made of the subordinate's name, the manager's
\* name and the manager's level, and total_reports is the number of REPORTS_TO
\* edges (0 and an empty structure without any); an edge from an employee to
\* themselves, or edges that close a cycle, are entries like any other.
C18_TeamStructure ==
    (result.op = "assess_team_structure" /\ result.kind = "return")
    => LET structure == result.val.structure
           edges == {r \in DOMAIN db.rels : r.type = "REPORTS_TO"}
           Entry(r) == [employee |-> Prop(r.from.v, "name"),
                        manager |-> Prop(r.to.v, "name"),
                        manager_level |-> Prop(r.to.v, "level")]
           EdgesOf(e) == [r \in {x \in edges : Entry(x) = e} |-> db.rels[r]]
       IN  /\ result.val.total_reports = Len(structure)
           /\ Len(structure) = BagCardinality([r \in edges |-> db.rels[r]])
           /\ \A i \in 1..Len(structure) : \E r \in edges : structure[i] = Entry(r)
           /\ \A r \in edges :
                  Cardinality({i \in 1..Len(structure) : structure[i] = Entry(r)})
                  = BagCardinality(EdgesOf(Entry(r)))
           /\ edges = {} => (result.val.total_reports = 0 /\ structure = <<>>)

\* two reporting edges, one of them from an employee to themselves
C18_Witness ==
    /\ result.op = "assess_team_structure"
    /\ result.kind = "return"
    /\ result.val.total_reports = 2
    /\ \E i, j \in 1..2 :
          /\ result.val.structure[i].employee = result.val.structure[i].manager
          /\ result.val.structure[j].employee # result.val.structure[j].manager
    /\ \E r \in DOMAIN db.rels : r.type = "REPORTS_TO" /\ r.from = r.to


\* C19: the reason assess_promotion_eligibility returns for an existing
\* employee gives the employee's level and the number of the employee's
\* Advanced skills, in the Senior-eligible, the Manager-eligible and the
\* ineligible branch alike.
C19_ReasonAsStated ==
    (/\ result.op = "assess_promotion_eligibility"
     /\ result.kind = "return"
     /\ MatchNodes(db, "Employee", "id", result.args[1]) # {})
    => LET reason == result.val.reason
           \* the level the text names
           NamedLevel ==
               IF "level" \in DOMAIN reason THEN reason.level
               ELSE IF reason = Str("Senior level with multiple advanced skills")
               THEN "Senior"
               ELSE IF reason = Str("Manager level with advanced technical skills")
               THEN "Manager"
               ELSE NULL
       IN  \E h \in MatchNodes(db, "Employee", "id", result.args[1]),
              o \in get_employee_skills(driver, db, result.args[1]) :
                /\ o.kind = "return"
                /\ NamedLevel = h.v.level
                /\ "n" \in DOMAIN reason
                /\ reason.n = Cardinality(advanced_skills(o.val))


C21_EngagementActionTable ==
    result.op = "recommend_engagement_action"
    => LET engagement == result.args[1]
           level == result.args[2]
           Cell ==
               CASE engagement = "low" /\ level = "Junior" ->
                       <<"Schedule mentorship meeting", "Review role fit",
                         "Discuss career growth">>
                 [] engagement = "low" /\ level = "Senior" ->
                       <<"One-on-one leadership discussion", "Explore new challenges",
                         "Consider sabbatical">>
                 [] engagement = "low" /\ level = "Manager" ->
                       <<"Discuss team dynamics", "Executive coaching",
                         "Rebalance responsibilities">>
                 [] engagement = "medium" /\ level = "Junior" ->
                       <<"Provide growth opportunities", "Skill development plan",
                         "Peer collaboration">>
                 [] engagement = "medium" /\ level = "Senior" ->
                       <<"Leadership development program", "Project ownership",
                         "Cross-team initiatives">>
                 [] engagement = "medium" /\ level = "Manager" ->
                       <<"Manager effectiveness review", "Team engagement assessment",
                         "Strategic planning">>
                 [] engagement = "high" /\ level = "Junior" ->
                       <<"Recognize achievements", "Increase responsibilities",
                         "Mentorship opportunities">>
                 [] engagement = "high" /\ level = "Senior" ->
                       <<"Leadership opportunities", "Promotion pathway",
                         "Innovation projects">>
                 [] engagement = "high" /\ level = "Manager" ->
                       <<"Expand portfolio", "Strategic initiatives", "Succession planning">>
                 [] OTHER -> <<>>
       IN  /\ result.kind = "return"
           /\ result.val.recommended_actions = Cell
           /\ (engagement \in {"low", "medium", "high"}
                /\ level \in {"Junior", "Senior", "Manager"})
              <=> Len(result.val.recommended_actions) = 3
           /\ Len(result.val.recommended_actions) \in {0, 3}
           /\ result.val.engagement = engagement
           /\ result.val.level = level
           /\ result.val.role = result.args[3]

\* a cell of the table, asked for with no role
C21_Witness ==
    /\ result.op = "recommend_engagement_action"
    /\ result.args = <<"medium", "Manager", NULL>>
    /\ result.val.recommended_actions[3] = "Strategic planning"


\* C22: execute_skill_action(employee_id, gap) looks the gap's priority up:
\* critical gives hire_external and emergency_training, both of urgency
\* critical; high gives training_program and knowledge_transfer, both of
\* urgency high; any other priority gives one training_program of urgency
\* medium; every action targets the gap's skill, and the result's priority and
\* skill are the gap's.
C22_SkillActionTable ==
    result.op = "execute_skill_action"
    => LET gap == result.args[2]
           actions == result.val.recommended_actions
           Shape == [i \in 1..Len(actions) |-> <<actions[i].type, actions[i].urgency>>]
       IN  /\ result.kind = "return"
           /\ result.val.skill = gap.skill
           /\ result.val.priority = gap.priority
           /\ \A i \in 1..Len(actions) : actions[i].target = gap.skill
           /\ gap.priority = "critical"
                => Shape = << <<"hire_external", "critical">>,
                              <<"emergency_training", "critical">> >>
           /\ gap.priority = "high"
                => Shape = << <<"training_program", "high">>,
                              <<"knowledge_transfer", "high">> >>
           /\ gap.priority \notin {"critical", "high"}
                => Shape = << <<"training_program", "medium">> >>

\* a gap of a priority that is neither critical nor high
C22_Witness ==
    /\ result.op = "execute_skill_action"
    /\ result.args[2].priority = "medium"
    /\ Len(result.val.recommended_actions) = 1
    /\ result.val.recommended_actions[1].target = "Sales"


\* C23: execute_engagement_action(employee_id, action_type, engagement_level)
\* returns two actions chosen by the tier: low gives one_on_one_meeting and
\* workload_review, both immediate; medium gives engagement_check (high) and
\* growth_opportunity (medium); high, and any value that is no tier, gives
\* recognition (high) and retention (medium); every action targets
\* employee_id and the status is pending_approval.
C23_EngagementActionTable ==
    result.op = "execute_engagement_action"
    => LET tier == result.args[3]
           actions == result.val.recommended_actions
           Shape == [i \in 1..Len(actions) |-> <<actions[i].type, actions[i].urgency>>]
       IN  /\ result.kind = "return"
           /\ Len(actions) = 2
           /\ \A i \in 1..2 : actions[i].target = result.args[1]
           /\ result.val.status = "pending_approval"
           /\ result.val.employee_id = result.args[1]
           /\ result.val.engagement_level = tier
           /\ Shape = IF tier = "low"
                      THEN << <<"one_on_one_meeting", "immediate">>,
                              <<"workload_review", "immediate">> >>
                      ELSE IF tier = "medium"
                      THEN << <<"engagement_check", "high">>,
                              <<"growth_opportunity", "medium">> >>
                      ELSE << <<"recognition", "high">>, <<"retention", "medium">> >>

\* a value that is no tier got the actions of high
C23_Witness ==
    /\ result.op = "execute_engagement_action"
    /\ result.args[3] = "unknown"
    /\ result.val.recommended_actions[1].type = "recognition"


\* C24: a connect_to_db() made while the credentials load and the server
\* answers returns True and leaves a driver, and a get_driver() made then
\* returns a driver, after an earlier connect_to_db() that failed as well as
\* after none (the environment does not change while a result is pending).
C24_RetryAsStated ==
    (credentials /\ dbUp)
    => /\ result.op = "connect_to_db" => (result.val = TRUE /\ driver # NoDriver)
       /\ result.op = "get_driver" => result.val # NoDriver


\* C25: in every state that connect_to_db, get_driver, is_connected and
\* disconnect_db calls lead to: a driver is held only while the module is
\* initialised and it is the driver of the most recent connection attempt,
\* which passed verification; is_connected() says whether a driver is held;
\* get_driver() returns the held driver, never one whose verification failed;
\* connect_to_db() returns True exactly when a driver is held after it; and
\* while the module is initialised connect_to_db and get_driver make no
\* connection attempt and leave the driver as it is.
C25_ConnectionState ==
    /\ [](/\ driver # NoDriver => (connection_initialized /\ driver = attempts)
          /\ result.op = "is_connected" => result.val = (driver # NoDriver)
          /\ result.op = "get_driver" => result.val = driver
          /\ result.op = "connect_to_db" => (result.val = TRUE <=> driver # NoDriver))
    /\ [][/\ (driver' # NoDriver /\ driver' # driver)
              => (/\ credentials /\ dbUp
                  /\ ~connection_initialized
                  /\ attempts' = attempts + 1
                  /\ driver' = attempts')
          /\ attempts' # attempts
              => (/\ ~connection_initialized
                  /\ result'.op \in {"connect_to_db", "get_driver"}
                  /\ (credentials /\ dbUp) \/ driver' = NoDriver)
          /\ (connection_initialized /\ result'.op \in {"connect_to_db", "get_driver"})
              => conn' = conn ]_conn

\* connected again after a disconnect: the driver of the second attempt is held
C25_Witness ==
    /\ result.op = "is_connected"
    /\ result.val = TRUE
    /\ attempts = 2
    /\ driver = 2


\* C26: disconnect_db() on a held driver drops the driver and resets the
\* initialised flag, so is_connected() is false afterwards; the next
\* connect_to_db() or get_driver() of an uninitialised module makes a
\* connection attempt, and when it succeeds the driver it returns is the one
\* constructed by that attempt, not an earlier one; disconnect_db() with no
\* driver held leaves the driver, the flag and the attempt count as they were.
C26_Disconnect ==
    /\ [](/\ ~connection_initialized => driver = NoDriver
          /\ (result.op = "is_connected" /\ ~connection_initialized)
              => result.val = FALSE)
    /\ [][/\ result'.op = "disconnect_db"
              => IF driver # NoDriver
                 THEN /\ driver' = NoDriver
                      /\ ~connection_initialized'
                      /\ attempts' = attempts
                 ELSE conn' = conn
          /\ (~connection_initialized /\ result'.op \in {"connect_to_db", "get_driver"})
              => /\ attempts' = attempts + 1
                 /\ connection_initialized'
                 /\ IF credentials /\ dbUp
                    THEN /\ driver' = attempts + 1
                         /\ result'.op = "connect_to_db" => result'.val = TRUE
                         /\ result'.op = "get_driver" => result'.val = driver'
                    ELSE /\ driver' = NoDriver
                         /\ result'.op = "connect_to_db" => result'.val = FALSE
                         /\ result'.op = "get_driver" => result'.val = NoDriver
       ]_<<conn, result.op>>

\* get_driver() after a connect and a disconnect returns the second driver
C26_Witness ==
    /\ result.op = "get_driver"
    /\ result.val = 2
    /\ attempts = 2


\* C27: init_db called while get_driver() yields no driver returns
\* {success: False, message: "Database not connected. Cannot initialize."}
\* without raising and leaves the store as it was, also with clear_first true.
C27_InitNotConnected ==
    [][(result'.op = "init_db" /\ driver' = NoDriver)
        => /\ db' = db
           /\ result'.kind = "return"
           /\ result'.val = [success |-> FALSE,
                             message |-> Str("Database not connected. Cannot initialize.")]
      ]_<<db, result.op>>

\* init_db(clear_first=True) answered without a driver on a filled store
C27_Witness ==
    /\ result.op = "init_db"
    /\ result.args = <<TRUE>>
    /\ driver = NoDriver
    /\ result.val.success = FALSE
    /\ db # EmptyStore


\* C28: whenever init_db returns success False, the store holds exactly the
\* entities and relationships it held before the call, with clear_first true
\* and false alike.
C28_AllOrNothingAsStated ==
    [][(result'.op = "init_db" /\ result'.val.success = FALSE) => db' = db
      ]_<<db, result.op>>


C30_ReportCountsAsStated ==
    LET Attached(L, key) ==
            Cardinality({i \in 1..Len(L) :
                            /\ "template" \in DOMAIN L[i]
                            /\ key \in DOMAIN L[i].template
                            /\ L[i].template[key]})
        Counted(id, L) ==
            LET r == generate_action_execution_report(id, L).resource_requirements
            IN  /\ r.budget_items = Attached(L, "budget_required")
                /\ r.approvals_required = Attached(L, "requires_approval")
    IN  /\ result.op \in {"execute_engagement_action", "execute_skill_action",
                          "execute_promotion_action"}
            => Counted(result.args[1], result.val.recommended_actions)
        /\ result.op = "execute_comprehensive_action_plan"
            => /\ Counted(result.args[1], result.val.actions)
               /\ result.val.resource_requirements
                    = generate_action_execution_report(result.args[1], result.val.actions)
                        .resource_requirements

====
